---- MODULE Spec2Model ----
(***************************************************************************)
(* ScillyScope: the note-lifecycle and scheduled-playback engine of the    *)
(* browser keyboard toy (keyboard.js, audio.js, playRecord.js, game.js).   *)
(*                                                                         *)
(* Representation.  A JavaScript string is a sequence of one-character     *)
(* strings, so "A#2" is <<"A", "#", "2">>; the glyph U+2423 is the         *)
(* character "U+2423".  Times are integer milliseconds, the unit           *)
(* setTimeout receives (0.5 s is 500).  A frequency is an integer number   *)
(* of millihertz.  The slider value and volume are integer percent         *)
(* (volume 0.5 is 50).                                                     *)
(***************************************************************************)
EXTENDS Integers, Sequences, FiniteSets, TLC

(***************************************************************************)
(* Bounds of the model.                                                    *)
(***************************************************************************)
\* the user plays the first NumUserKeys keys and the last key of the keyboard
NumUserKeys == 1
\* longest melody string handed to playMelody / playRecording
MaxMelodyLen == 2
\* longest captured sequence the recorder is driven to
MaxRecorded == 3
\* abandoned oscillators per note are counted up to MaxLeaked, then saturate
MaxLeaked == 1
\* the labels handed to resolveNoteFromLabel have at most MaxLabelLen characters
MaxLabelLen == 3
\* the keyboards with labels assigned freely have NumLabelledKeys keys
NumLabelledKeys == 4
\* getFrequency is called with the octaves 0..MaxOctave
MaxOctave == 8

(***************************************************************************)
(* Characters and strings.                                                 *)
(***************************************************************************)
UpperChars ==
    << "A", "B", "C", "D", "E", "F", "G", "H", "I", "J", "K", "L", "M",
       "N", "O", "P", "Q", "R", "S", "T", "U", "V", "W", "X", "Y", "Z" >>

LowerChars ==
    << "a", "b", "c", "d", "e", "f", "g", "h", "i", "j", "k", "l", "m",
       "n", "o", "p", "q", "r", "s", "t", "u", "v", "w", "x", "y", "z" >>

DigitChars == << "0", "1", "2", "3", "4", "5", "6", "7", "8", "9" >>

\* U+2423, the visible space symbol of the label pool
SpaceGlyph == "U+2423"

\* characters String.prototype.trim removes (the ones the model uses)
WhiteSpace == { " ", "\t", "\n" }

Range(s) == { s[i] : i \in 1..Len(s) }

\* String.prototype.toUpperCase on one character
toUpperCaseChar(c) ==
    IF \E i \in 1..Len(LowerChars) : LowerChars[i] = c
    THEN UpperChars[CHOOSE i \in 1..Len(LowerChars) : LowerChars[i] = c]
    ELSE c

toUpperCase(s) == [i \in 1..Len(s) |-> toUpperCaseChar(s[i])]

RECURSIVE trimStart(_)
trimStart(s) ==
    IF s # <<>> /\ Head(s) \in WhiteSpace THEN trimStart(Tail(s)) ELSE s

RECURSIVE trimEnd(_)
trimEnd(s) ==
    IF s # <<>> /\ s[Len(s)] \in WhiteSpace
    THEN trimEnd(SubSeq(s, 1, Len(s) - 1))
    ELSE s

\* String.prototype.trim
trim(s) == trimEnd(trimStart(s))

\* String(n) for a natural number n: its decimal digits
RECURSIVE NumToString(_)
NumToString(n) ==
    IF n < 10 THEN << DigitChars[n + 1] >>
    ELSE NumToString(n \div 10) \o << DigitChars[(n % 10) + 1] >>

DigitValue(c) == (CHOOSE i \in 1..10 : DigitChars[i] = c) - 1

\* parseInt(s, 10) on a string of decimal digits
RECURSIVE parseInt(_)
parseInt(s) ==
    IF s = <<>> THEN 0
    ELSE 10 * parseInt(SubSeq(s, 1, Len(s) - 1)) + DigitValue(s[Len(s)])

\* String.prototype.endsWith
endsWith(s, suffix) ==
    /\ Len(suffix) <= Len(s)
    /\ SubSeq(s, Len(s) - Len(suffix) + 1, Len(s)) = suffix

\* Array.prototype.indexOf: 0-based, -1 when absent
indexOf(arr, x) ==
    IF \E i \in 1..Len(arr) : arr[i] = x
    THEN (CHOOSE i \in 1..Len(arr) : arr[i] = x /\ \A j \in 1..(i - 1) : arr[j] # x) - 1
    ELSE -1

\* the regular expression /^([A-G]#?)(\d+)$/ of the scheduled note-start:
\* <<>> when the string does not match, else << name, digits >>
matchNote(s) ==
    LET nameLen == IF Len(s) >= 2 /\ s[2] = "#" THEN 2 ELSE 1
        digits == SubSeq(s, nameLen + 1, Len(s))
    IN  IF /\ Len(s) >= 1
           /\ s[1] \in { "A", "B", "C", "D", "E", "F", "G" }
           /\ digits # <<>>
           /\ \A i \in 1..Len(digits) : digits[i] \in Range(DigitChars)
        THEN << SubSeq(s, 1, nameLen), digits >>
        ELSE <<>>

(***************************************************************************)
(* Frequency Mapper: getFrequency.                                         *)
(***************************************************************************)
A4 == 440

noteOrder ==
    << <<"C">>, <<"C", "#">>, <<"D">>, <<"D", "#">>, <<"E">>, <<"F">>,
       <<"F", "#">>, <<"G">>, <<"G", "#">>, <<"A">>, <<"A", "#">>, <<"B">> >>

\* 1000000 * 2^(r/12) for r = 0..11, rounded: Math.pow(2, r/12) to six places
SemitoneRatio ==
    << 1000000, 1059463, 1122462, 1189207, 1259921, 1334840,
       1414214, 1498307, 1587401, 1681793, 1781797, 1887749 >>

\* a faulty variant of Pow2: 2 * n
Pow2Linear(n) == IF n <= 0 THEN 1 ELSE 2 * n

RECURSIVE Pow2(_)
Pow2(n) == IF n <= 0 THEN 1 ELSE 2 * Pow2(n - 1)

\* a faulty variant of keyNumber: the index counted from 1
keyNumberFromOne(note, octave) == indexOf(noteOrder, note) + 1 + (octave * 12)

\* the key number of a pitch class and octave
keyNumber(note, octave) == indexOf(noteOrder, note) + (octave * 12)

\* A4 * Math.pow(2, (keyNumber - 57) / 12), in millihertz: the exponent is
\* split into whole octaves q and semitones r, 2^(q + r/12) = 2^q * 2^(r/12)
getFrequency(note, octave) ==
    LET e == keyNumber(note, octave) - 57
        q == e \div 12
        r == e % 12
        base == (A4 * SemitoneRatio[r + 1]) \div 1000
    IN  IF q >= 0 THEN base * Pow2(q) ELSE base \div Pow2(0 - q)

(***************************************************************************)
(* The keyboard widget: createKeyboard.                                    *)
(***************************************************************************)
whiteNotes == << "C", "D", "E", "F", "G", "A", "B" >>

\* blackMap: the white notes that have a black key to their right
blackMap == { "C", "D", "F", "G", "A" }

startOctave == 2
endOctave == 4
startNoteName == "A"
endNoteName == "B"

\* label pool: A..Z once, then the visible space symbol
labelPool == UpperChars \o << SpaceGlyph >>

\* a faulty variant of poolLabel: past A..Z the pool starts over
poolLabelWrapping(labelIndex) ==
    labelPool[(labelIndex % Len(UpperChars)) + 1]

\* labelPool[labelIndex] || '␣'  (labelIndex is 0-based)
poolLabel(labelIndex) ==
    IF labelIndex < Len(labelPool) THEN labelPool[labelIndex + 1] ELSE SpaceGlyph

\* one key element: data-note, textContent, and the pitch class and octave
\* its press listeners capture
Key(name, octave, label) ==
    [ note |-> name \o NumToString(octave), label |-> << label >>,
      name |-> name, octave |-> octave ]

\* the keys appended from white note i (1-based) of `octave` on, with
\* labelIndex labels consumed so far
RECURSIVE buildKeys(_, _, _)
buildKeys(octave, i, labelIndex) ==
    IF octave > endOctave THEN <<>>
    ELSE IF i > Len(whiteNotes) THEN buildKeys(octave + 1, 1, labelIndex)
    ELSE LET note == whiteNotes[i]
             skip == \/ /\ octave = startOctave
                        /\ indexOf(whiteNotes, note) < indexOf(whiteNotes, startNoteName)
                     \/ /\ octave = endOctave
                        /\ indexOf(whiteNotes, note) > indexOf(whiteNotes, endNoteName)
         IN  IF skip THEN buildKeys(octave, i + 1, labelIndex)
             ELSE IF note \in blackMap
             THEN << Key(<<note>>, octave, poolLabel(labelIndex)),
                     Key(<<note, "#">>, octave, poolLabel(labelIndex + 1)) >>
                  \o buildKeys(octave, i + 1, labelIndex + 2)
             ELSE << Key(<<note>>, octave, poolLabel(labelIndex)) >>
                  \o buildKeys(octave, i + 1, labelIndex + 1)

\* the '.key' elements in document order
createKeyboard == buildKeys(startOctave, 1, 0)

keyboard == createKeyboard

(***************************************************************************)
(* State.                                                                  *)
(***************************************************************************)
VARIABLES
    activeNotes,        \* keyboard.js: note identifier -> { osc, gain }
    leaked,             \* note identifier -> oscillators started, never given a
                        \* stop, whose handle activeNotes no longer holds
    volume,             \* audio.js: global volume, percent
    targetAmp,          \* audio.js: 0 or volume
    currentFreq,        \* audio.js: active note frequency, or Null
    lastFreq,           \* audio.js: last frequency, 0 before any note
    audioState,         \* audioCtx.state
    isRecording,        \* playRecord.js
    recordedNotes,      \* playRecord.js: sequence of { note, label }
    isPlaying,          \* playRecord.js: guard of playMelody
    isPlayingRecorded,  \* playRecord.js: guard of playRecording
    disabled,           \* the disabled property of the three buttons
    curMelody,          \* game.js: the melody both play buttons pass on
    held,               \* the keys between their mousedown / touchstart and
                        \* their mouseup / mouseleave / touchend
    mono,               \* game.js v0.4, the page in one script: its
                        \* activeNotes, targetAmp, currentFreq, lastFreq,
                        \* volume, flags, buttons and pending timers
    timers,             \* pending setTimeout callbacks, in registration order
    results,            \* what the callback of the playRecording call in
                        \* progress (or last finished) has received
    guardAtCallback,    \* isPlayingRecorded as each of those callback
                        \* invocations finds it
    visualAmp,          \* scopeRenderer.js: the eased amplitude, percent
    threw,              \* an exception escaped a handler
    lastCall            \* history: the handler that ran last and its argument

voiceVars == << activeNotes, leaked, targetAmp, currentFreq, lastFreq >>
recVars == << isRecording, recordedNotes >>
\* never written after the page has loaded
constVars == << curMelody >>
scopeVars == << visualAmp >>
userVars == << held >>
monoVars == << mono >>
playVars == << isPlaying, isPlayingRecorded, timers, results, guardAtCallback >>

vars ==
    << activeNotes, leaked, volume, targetAmp, currentFreq, lastFreq,
       audioState, isRecording, recordedNotes, isPlaying, isPlayingRecorded,
       disabled, curMelody, held, mono, timers, results, guardAtCallback,
       visualAmp, threw, lastCall >>

\* currentFreq = null
Null == -1

(***************************************************************************)
(* Inputs the environment draws from.                                      *)
(***************************************************************************)
\* the keys the user presses: the first NumUserKeys keys and the last key
UserKeys ==
    { keyboard[i] : i \in (1..NumUserKeys) \cup { Len(keyboard) } }

UserNotes == { k.note : k \in UserKeys }

UserFreqs == { getFrequency(k.name, k.octave) : k \in UserKeys }

\* the characters melodies are made of: a key label in upper and in lower
\* case, the label of the last key, a blank, and a character no key carries
MelodyChars == { "A", "a", SpaceGlyph, " ", "?" }

RECURSIVE StringsUpTo(_, _)
StringsUpTo(chars, n) ==
    IF n = 0 THEN { <<>> }
    ELSE LET shorter == StringsUpTo(chars, n - 1)
         IN  shorter \cup { Append(str, c) : str \in shorter, c \in chars }

\* the melodies of game.js
melodies ==
    << << "W", "A", "V", "E", "S" >>,
       << "W", "A", "T", "E", "R" >>,
       << "S", "O", "M", "E", SpaceGlyph, "O", "T", "H", "E", "R" >> >>

currentMelodyIndex == 0

\* melodies of the form <label> U+2423 <label>
GlyphMelodies == { << a, SpaceGlyph, b >> : a, b \in { "A", "a" } }

\* the melody strings handed to playMelody and playRecording: the short
\* strings over MelodyChars, the melodies of game.js, and GlyphMelodies
Melodies ==
    StringsUpTo(MelodyChars, MaxMelodyLen) \cup Range(melodies) \cup GlyphMelodies

\* a faulty variant of Entry: the visible label is stored as the note
EntryLabelAsNote(k) == [ note |-> k.label, label |-> k.label ]

\* the entry recordKeyPresses captures for key k
Entry(k) ==
    [ note |-> k.note, label |-> IF k.label # <<>> THEN k.label ELSE << SpaceGlyph >> ]

\* the keys captured recordings are made of: the first and the last key
RecordedKeys == { keyboard[1], keyboard[Len(keyboard)] }

RECURSIVE RecordingsUpTo(_)
RecordingsUpTo(n) ==
    IF n = 0 THEN { <<>> }
    ELSE LET shorter == RecordingsUpTo(n - 1)
         IN  shorter \cup { Append(r, Entry(k)) : r \in shorter, k \in RecordedKeys }

Recordings == RecordingsUpTo(MaxRecorded)

\* positions of the volume slider (0..100)
SliderValues == { 0, 100 }

(***************************************************************************)
(* Note Voice Manager: setVars, clearVars, startNote, stopNote.            *)
(***************************************************************************)
\* a faulty variant of setVars: the frequency of a note already sounding is kept
setVarsWhenIdle(freq) ==
    /\ currentFreq' = IF currentFreq = Null THEN freq ELSE currentFreq
    /\ lastFreq' = freq
    /\ targetAmp' = volume

\* a faulty variant of setVars: lastFreq keeps the first frequency
setVarsKeepsLast(freq) ==
    /\ currentFreq' = freq
    /\ lastFreq' = IF lastFreq = 0 THEN freq ELSE lastFreq
    /\ targetAmp' = volume

setVars(freq) ==
    /\ currentFreq' = freq
    /\ lastFreq' = freq
    /\ targetAmp' = volume

\* a faulty variant of clearVars: the last frequency is reset as well
clearVarsResetsLast ==
    /\ currentFreq' = Null
    /\ targetAmp' = 0
    /\ lastFreq' = 0

\* lastFreq is not assigned
clearVars ==
    /\ currentFreq' = Null
    /\ targetAmp' = 0
    /\ UNCHANGED lastFreq

\* the voice built by startNote: an oscillator at freq, a gain ramped to volume
Voice(freq) == [ osc |-> freq, gain |-> volume ]

\* the oscillator started; activeNotes[note] overwritten, so that a handle it
\* held before is lost with its oscillator still running
startNote(note, freq) ==
    /\ activeNotes' =
          [ n \in DOMAIN activeNotes \cup { note } |->
              IF n = note THEN Voice(freq) ELSE activeNotes[n] ]
    /\ leaked' =
          IF note \in DOMAIN activeNotes
          THEN [ n \in DOMAIN leaked \cup { note } |->
                   IF n # note THEN leaked[n]
                   ELSE IF n \notin DOMAIN leaked THEN 1
                   ELSE IF leaked[n] < MaxLeaked THEN leaked[n] + 1
                   ELSE leaked[n] ]
          ELSE leaked
    /\ setVars(freq)

\* a faulty variant of stopEntry: the shared state is cleared although other
\* notes still sound
stopEntryAlwaysClears(note) ==
    /\ activeNotes' = [ n \in DOMAIN activeNotes \ { note } |-> activeNotes[n] ]
    /\ clearVars
    /\ UNCHANGED << leaked, threw >>

\* stopNote past its guard: osc.stop scheduled for the entry's oscillator,
\* the entry deleted, the shared state cleared when no entry is left
stopEntry(note) ==
    /\ activeNotes' = [ n \in DOMAIN activeNotes \ { note } |-> activeNotes[n] ]
    /\ IF DOMAIN activeNotes \ { note } = {}
       THEN clearVars
       ELSE UNCHANGED << currentFreq, targetAmp, lastFreq >>
    /\ UNCHANGED << leaked, threw >>

\* a faulty variant of stopNote: the emptiness test runs before the guard
stopNoteClearsFirst(note) ==
    IF note \notin DOMAIN activeNotes
    THEN /\ clearVars
         /\ UNCHANGED << activeNotes, leaked, threw >>
    ELSE stopEntry(note)

stopNote(note) ==
    IF note \notin DOMAIN activeNotes
    THEN UNCHANGED << voiceVars, threw >>
    ELSE stopEntry(note)

\* oscillators of `note` started and not yet given a stop
Sounding(note) ==
    (IF note \in DOMAIN activeNotes THEN 1 ELSE 0)
    + (IF note \in DOMAIN leaked THEN leaked[note] ELSE 0)

(***************************************************************************)
(* Label Resolver: resolveNoteFromLabel, and the label->note map that      *)
(* playRecording builds.  An absent result (null) is the empty string.     *)
(***************************************************************************)
\* (k.textContent || '').trim().toUpperCase()
keyLabel(k) == toUpperCase(trim(k.label))

\* a faulty variant of resolveAmong: the preferred octave is not looked at
resolveAmongFirstMatch(keys, label, preferredOctave) ==
    IF label = <<>> THEN <<>>
    ELSE LET wanted == toUpperCase(trim(label))
             matches == SelectSeq(keys, LAMBDA k : keyLabel(k) = wanted)
         IN  IF matches = <<>> THEN <<>> ELSE matches[1].note

\* the body of resolveNoteFromLabel, over the key elements keys that
\* keyboard.querySelectorAll('.key') returns, in document order
resolveAmong(keys, label, preferredOctave) ==
    IF label = <<>> THEN <<>>
    ELSE LET wanted == toUpperCase(trim(label))
             matches == SelectSeq(keys, LAMBDA k : keyLabel(k) = wanted)
             byOctave == SelectSeq(matches,
                            LAMBDA k : endsWith(k.note, NumToString(preferredOctave)))
         IN  IF matches = <<>> THEN <<>>
             ELSE IF preferredOctave # Null /\ byOctave # <<>> THEN byOctave[1].note
             ELSE matches[1].note

\* a faulty variant of resolveNoteFromLabel: the label is compared as given
resolveNoteFromLabelExact(label, preferredOctave) ==
    IF label = <<>> THEN <<>>
    ELSE LET wanted == label
             matches == SelectSeq(keyboard, LAMBDA k : keyLabel(k) = wanted)
             byOctave == SelectSeq(matches,
                            LAMBDA k : endsWith(k.note, NumToString(preferredOctave)))
         IN  IF matches = <<>> THEN <<>>
             ELSE IF preferredOctave # Null /\ byOctave # <<>> THEN byOctave[1].note
             ELSE matches[1].note

\* resolveNoteFromLabel(label, preferredOctave); preferredOctave Null when
\* the argument is not given
resolveNoteFromLabel(label, preferredOctave) ==
    resolveAmong(keyboard, label, preferredOctave)

\* map[label] || null for the map built by forEach over the keys: a later
\* key with the same label overwrites an earlier one
mapLookup(label) ==
    LET hits == { i \in 1..Len(keyboard) :
                    keyLabel(keyboard[i]) = label /\ label # <<>> /\ keyboard[i].note # <<>> }
    IN  IF hits = {} THEN <<>>
        ELSE keyboard[CHOOSE i \in hits : \A j \in hits : j <= i].note

(***************************************************************************)
(* Playback Scheduler.  A pending timer is                                 *)
(*   fn     "start", "stop" or "done"                                      *)
(*   src    "melody" (playMelody) or "recording" (playRecording)           *)
(*   note   the note identifier the closure holds ("done": empty)          *)
(*   melody the melody string the "done" closure of playRecording holds    *)
(*   delay  the milliseconds handed to setTimeout                          *)
(*   rem    the milliseconds left until it is due                          *)
(***************************************************************************)
DEFAULT_NOTE_DURATION == 500
LAST_NOTE_DURATION == 1000
NOTE_RELEASE == 500
\* the 100 of setTimeout(..., totalMs + 100) in playRecording
RESULT_DELAY == 100

\* the longest step of time the model takes at once
TickMs == DEFAULT_NOTE_DURATION

Timer(fn, src, note, melody, delay) ==
    [ fn |-> fn, src |-> src, note |-> note, melody |-> melody,
      delay |-> delay, rem |-> delay ]

\* a faulty variant of noteDuration: the last entry is no longer than the others
noteDurationUniform(idx, n) == DEFAULT_NOTE_DURATION

\* the duration of position idx (0-based) of a sequence of n entries
noteDuration(idx, n) ==
    IF idx = n - 1 THEN LAST_NOTE_DURATION ELSE DEFAULT_NOTE_DURATION

\* the note identifier playMelody plays for the character ch, or <<>>
melodyNote(ch) ==
    LET label == toUpperCase(trim(<< ch >>))
    IN  IF label = <<>> THEN <<>> ELSE resolveNoteFromLabel(label, Null)

\* a faulty variant of entryNote: the visible label is played
entryNoteFromLabel(entry) == entry.label

\* the note identifier playRecording plays for a recorded entry, or <<>>
entryNote(entry) == entry.note

\* a faulty variant of schedule: the completion does not wait for the notes
RECURSIVE scheduleDoneEarly(_, _, _, _, _, _)
scheduleDoneEarly(notes, idx, timeOffset, src, melody, extra) ==
    IF idx >= Len(notes)
    THEN << Timer("done", src, <<>>, melody, NOTE_RELEASE + extra) >>
    ELSE LET note == notes[idx + 1]
             duration == noteDuration(idx, Len(notes))
         IN  IF note = <<>>
             THEN scheduleDoneEarly(notes, idx + 1, timeOffset + duration, src, melody, extra)
             ELSE << Timer("start", src, note, <<>>, timeOffset),
                     Timer("stop", src, note, <<>>, timeOffset + duration) >>
                  \o scheduleDoneEarly(notes, idx + 1, timeOffset + duration,
                                       src, melody, extra)

\* a faulty variant of schedule: a skipped entry does not advance the running offset
RECURSIVE scheduleSkipKeepsOffset(_, _, _, _, _, _)
scheduleSkipKeepsOffset(notes, idx, timeOffset, src, melody, extra) ==
    IF idx >= Len(notes)
    THEN << Timer("done", src, <<>>, melody, timeOffset + NOTE_RELEASE + extra) >>
    ELSE LET note == notes[idx + 1]
             duration == noteDuration(idx, Len(notes))
         IN  IF note = <<>>
             THEN scheduleSkipKeepsOffset(notes, idx + 1, timeOffset, src, melody, extra)
             ELSE << Timer("start", src, note, <<>>, timeOffset),
                     Timer("stop", src, note, <<>>, timeOffset + duration) >>
                  \o scheduleSkipKeepsOffset(notes, idx + 1, timeOffset + duration,
                                             src, melody, extra)

\* the forEach of playMelody / playRecording from position idx (0-based) on,
\* with the running offset timeOffset: the timers it registers, in order,
\* followed by the completion timer.  notes[i] is <<>> for a skipped entry.
RECURSIVE schedule(_, _, _, _, _, _)
schedule(notes, idx, timeOffset, src, melody, extra) ==
    IF idx >= Len(notes)
    THEN << Timer("done", src, <<>>, melody, timeOffset + NOTE_RELEASE + extra) >>
    ELSE LET note == notes[idx + 1]
             duration == noteDuration(idx, Len(notes))
         IN  IF note = <<>>
             THEN schedule(notes, idx + 1, timeOffset + duration, src, melody, extra)
             ELSE << Timer("start", src, note, <<>>, timeOffset),
                     Timer("stop", src, note, <<>>, timeOffset + duration) >>
                  \o schedule(notes, idx + 1, timeOffset + duration, src, melody, extra)

\* if (audioCtx.state === 'suspended') audioCtx.resume()
resume == audioState' = "running"

\* a faulty variant of playMelody: the isPlaying guard is missing
playMelodyUnguarded(melodyStr) ==
    /\ resume
    /\ IF melodyStr = <<>>
       THEN UNCHANGED << isPlaying, timers, disabled >>
       ELSE /\ isPlaying' = TRUE
            /\ disabled' = [ disabled EXCEPT !.recordBtn = TRUE, !.playBottomBtn = TRUE ]
            /\ timers' = timers \o
                 schedule([ i \in 1..Len(melodyStr) |-> melodyNote(melodyStr[i]) ],
                          0, 0, "melody", <<>>, 0)

\* a faulty variant of playMelody: the record and the bottom play button are
\* left as they are
playMelodyLeavesButtons(melodyStr) ==
    /\ resume
    /\ IF isPlaying \/ melodyStr = <<>>
       THEN UNCHANGED << isPlaying, timers, disabled >>
       ELSE /\ isPlaying' = TRUE
            /\ disabled' = disabled
            /\ timers' = timers \o
                 schedule([ i \in 1..Len(melodyStr) |-> melodyNote(melodyStr[i]) ],
                          0, 0, "melody", <<>>, 0)

\* a faulty variant of playMelody: the guard flag is set before the melody
\* string is looked at
playMelodyFlagFirst(melodyStr) ==
    /\ resume
    /\ IF isPlaying
       THEN UNCHANGED << isPlaying, timers, disabled >>
       ELSE /\ isPlaying' = TRUE
            /\ IF melodyStr = <<>>
               THEN UNCHANGED << timers, disabled >>
               ELSE /\ disabled' = [ disabled EXCEPT !.recordBtn = TRUE,
                                                     !.playBottomBtn = TRUE ]
                    /\ timers' = timers \o
                         schedule([ i \in 1..Len(melodyStr) |-> melodyNote(melodyStr[i]) ],
                                  0, 0, "melody", <<>>, 0)

playMelody(melodyStr) ==
    /\ resume
    /\ IF isPlaying \/ melodyStr = <<>>
       THEN UNCHANGED << isPlaying, timers, disabled >>
       ELSE /\ isPlaying' = TRUE
            /\ disabled' = [ disabled EXCEPT !.recordBtn = TRUE, !.playBottomBtn = TRUE ]
            /\ timers' = timers \o
                 schedule([ i \in 1..Len(melodyStr) |-> melodyNote(melodyStr[i]) ],
                          0, 0, "melody", <<>>, 0)

\* a faulty variant of playRecording: the completion is registered at
\* totalMs, nothing added
playRecordingNoSlack(melodyStr) ==
    IF recordedNotes = <<>> \/ isPlayingRecorded
    THEN UNCHANGED << audioState, isPlayingRecorded, timers, disabled, results,
                    guardAtCallback >>
    ELSE /\ resume
         /\ isPlayingRecorded' = TRUE
         /\ disabled' = [ playButton |-> TRUE, recordBtn |-> TRUE, playBottomBtn |-> TRUE ]
         /\ results' = <<>>
         /\ guardAtCallback' = <<>>
         /\ timers' = timers \o
              schedule([ i \in 1..Len(recordedNotes) |-> entryNote(recordedNotes[i]) ],
                       0, 0, "recording", melodyStr, 0)

\* a faulty variant of playRecording: the test for an empty recording is
\* missing
playRecordingOfNothing(melodyStr) ==
    IF isPlayingRecorded
    THEN UNCHANGED << audioState, isPlayingRecorded, timers, disabled, results,
                    guardAtCallback >>
    ELSE /\ resume
         /\ isPlayingRecorded' = TRUE
         /\ disabled' = [ playButton |-> TRUE, recordBtn |-> TRUE, playBottomBtn |-> TRUE ]
         /\ results' = <<>>
         /\ guardAtCallback' = <<>>
         /\ timers' = timers \o
              schedule([ i \in 1..Len(recordedNotes) |-> entryNote(recordedNotes[i]) ],
                       0, 0, "recording", melodyStr, RESULT_DELAY)

\* a faulty variant of playRecording: the record button stays as it was
playRecordingLeavesRecordBtn(melodyStr) ==
    IF recordedNotes = <<>> \/ isPlayingRecorded
    THEN UNCHANGED << audioState, isPlayingRecorded, timers, disabled, results,
                    guardAtCallback >>
    ELSE /\ resume
         /\ isPlayingRecorded' = TRUE
         /\ disabled' = [ disabled EXCEPT !.playButton = TRUE, !.playBottomBtn = TRUE ]
         /\ results' = <<>>
         /\ guardAtCallback' = <<>>
         /\ timers' = timers \o
              schedule([ i \in 1..Len(recordedNotes) |-> entryNote(recordedNotes[i]) ],
                       0, 0, "recording", melodyStr, RESULT_DELAY)

playRecording(melodyStr) ==
    IF recordedNotes = <<>> \/ isPlayingRecorded
    THEN UNCHANGED << audioState, isPlayingRecorded, timers, disabled, results,
                    guardAtCallback >>
    ELSE /\ resume
         /\ isPlayingRecorded' = TRUE
         /\ disabled' = [ playButton |-> TRUE, recordBtn |-> TRUE, playBottomBtn |-> TRUE ]
         /\ results' = <<>>
         /\ guardAtCallback' = <<>>
         /\ timers' = timers \o
              schedule([ i \in 1..Len(recordedNotes) |-> entryNote(recordedNotes[i]) ],
                       0, 0, "recording", melodyStr, RESULT_DELAY)

\* a faulty variant of expectedNotes: the space glyph is dropped as a rest
expectedNotesDropGlyph(melodyStr) ==
    LET mapped == [ i \in 1..Len(melodyStr) |->
                      LET label == toUpperCase(trim(<< melodyStr[i] >>))
                      IN  IF label # <<>> /\ label # << SpaceGlyph >>
                          THEN mapLookup(label) ELSE <<>> ]
    IN  SelectSeq(mapped, LAMBDA n : n # <<>>)

\* the expected sequence the completion of playRecording derives from melodyStr
expectedNotes(melodyStr) ==
    LET mapped == [ i \in 1..Len(melodyStr) |->
                      LET label == toUpperCase(trim(<< melodyStr[i] >>))
                      IN  IF label # <<>> THEN mapLookup(label) ELSE <<>> ]
    IN  SelectSeq(mapped, LAMBDA n : n # <<>>)

\* recordedNotes.map(e => (e && e.note) ? e.note : String(e || ''))
actualNotes ==
    [ i \in 1..Len(recordedNotes) |->
        IF recordedNotes[i].note # <<>> THEN recordedNotes[i].note
        ELSE << "[object Object]" >> ]

\* a faulty variant of allMatch: the length test is missing (every() alone; a missing
\* actual[i] is undefined and differs from every identifier)
allMatchNoLength(expected, actual) ==
    \A i \in 1..Len(expected) : i <= Len(actual) /\ expected[i] = actual[i]

\* the Matcher: sameLength && expected.every((n, i) => n === actual[i])
allMatch(expected, actual) ==
    /\ Len(expected) = Len(actual)
    /\ \A i \in 1..Len(expected) : expected[i] = actual[i]

matchResult(expected, actual) ==
    IF allMatch(expected, actual) THEN "success!" ELSE "fail!"

\* a faulty variant of melodyDone: the guard is kept while a note still sounds
melodyDoneWhenSilent ==
    /\ disabled' = [ disabled EXCEPT
          !.recordBtn = isRecording \/ isPlayingRecorded,
          !.playBottomBtn = (recordedNotes = <<>>) \/ isRecording \/ isPlayingRecorded ]
    /\ isPlaying' = (DOMAIN activeNotes # {})
    /\ UNCHANGED << isPlayingRecorded, results, guardAtCallback >>

\* the completion callback of playMelody
melodyDone ==
    /\ disabled' = [ disabled EXCEPT
          !.recordBtn = isRecording \/ isPlayingRecorded,
          !.playBottomBtn = (recordedNotes = <<>>) \/ isRecording \/ isPlayingRecorded ]
    /\ isPlaying' = FALSE
    /\ UNCHANGED << isPlayingRecorded, results, guardAtCallback >>

\* a faulty variant of recordingDone: the callback runs before the guard is
\* cleared
recordingDoneCallbackFirst(melodyStr) ==
    /\ disabled' = [ playBottomBtn |-> recordedNotes = <<>>,
                     playButton |-> isRecording \/ isPlaying,
                     recordBtn |-> isPlaying ]
    /\ results' = Append(results, matchResult(expectedNotes(melodyStr), actualNotes))
    /\ guardAtCallback' = Append(guardAtCallback, isPlayingRecorded)
    /\ isPlayingRecorded' = FALSE
    /\ UNCHANGED isPlaying

\* the completion callback of playRecording
recordingDone(melodyStr) ==
    /\ disabled' = [ playBottomBtn |-> recordedNotes = <<>>,
                     playButton |-> isRecording \/ isPlaying,
                     recordBtn |-> isPlaying ]
    /\ isPlayingRecorded' = FALSE
    /\ results' = Append(results, matchResult(expectedNotes(melodyStr), actualNotes))
    /\ guardAtCallback' = Append(guardAtCallback, isPlayingRecorded')
    /\ UNCHANGED isPlaying

\* the scheduled note-start
timerStart(note) ==
    LET m == matchNote(note)
    IN  IF m = <<>> THEN UNCHANGED voiceVars
        ELSE startNote(note, getFrequency(m[1], parseInt(m[2])))

(***************************************************************************)
(* Recorder: record, recordKeyPresses.                                     *)
(***************************************************************************)
\* a faulty variant of record: stopping also empties the captured sequence
recordClearsOnStop ==
    /\ resume
    /\ isRecording' = ~isRecording
    /\ recordedNotes' = <<>>
    /\ IF ~isRecording
       THEN disabled' = [ disabled EXCEPT !.playBottomBtn = TRUE, !.playButton = TRUE ]
       ELSE disabled' = [ disabled EXCEPT
                  !.playBottomBtn = TRUE,
                  !.playButton = isPlayingRecorded ]

record ==
    /\ resume
    /\ isRecording' = ~isRecording
    /\ IF ~isRecording
       THEN /\ recordedNotes' = <<>>
            /\ disabled' = [ disabled EXCEPT !.playBottomBtn = TRUE, !.playButton = TRUE ]
       ELSE /\ UNCHANGED recordedNotes
            /\ disabled' = [ disabled EXCEPT
                  !.playBottomBtn = (recordedNotes = <<>>),
                  !.playButton = isPlayingRecorded ]

\* a faulty variant of recordKeyPresses: the isRecording test is missing
recordKeyPressesAlways(k) ==
    /\ recordedNotes' = Append(recordedNotes, Entry(k))
    /\ UNCHANGED isRecording

\* pointerdown on the key element k
recordKeyPresses(k) ==
    IF isRecording
    THEN /\ recordedNotes' = Append(recordedNotes, Entry(k))
         /\ UNCHANGED isRecording
    ELSE UNCHANGED recVars

(***************************************************************************)
(* The initial state: the modules loaded, game.js run.                     *)
(***************************************************************************)
\* game.js v0.4 once its script has run
monoLoaded ==
    [ activeNotes |-> <<>>, targetAmp |-> 0, currentFreq |-> Null, lastFreq |-> 0,
      volume |-> 50, audioState |-> "suspended",
      isRecording |-> FALSE, recordedNotes |-> <<>>,
      isPlaying |-> FALSE, isPlayingRecorded |-> FALSE,
      disabled |-> [ playButton |-> FALSE, recordBtn |-> FALSE, playBottomBtn |-> TRUE ],
      timers |-> <<>> ]

\* everything but the melody selected
Loaded ==
    /\ visualAmp = 0
    /\ mono = monoLoaded
    /\ held = {}
    /\ activeNotes = <<>>
    /\ leaked = <<>>
    /\ volume = 50
    /\ targetAmp = 0
    /\ currentFreq = Null
    /\ lastFreq = 0
    /\ audioState = "suspended"
    /\ isRecording = FALSE
    /\ recordedNotes = <<>>
    /\ isPlaying = FALSE
    /\ isPlayingRecorded = FALSE
    /\ disabled = [ playButton |-> FALSE, recordBtn |-> FALSE, playBottomBtn |-> TRUE ]
    /\ timers = <<>>
    /\ results = <<>>
    /\ guardAtCallback = <<>>
    /\ threw = FALSE
    /\ lastCall = [ op |-> "init", arg |-> <<>>, freq |-> 0, ok |-> TRUE ]

Init ==
    /\ Loaded
    /\ curMelody = melodies[currentMelodyIndex + 1]

(***************************************************************************)
(* Calls of the Note Voice Manager and the volume slider.                  *)
(***************************************************************************)
StartNoteCall ==
    \E note \in UserNotes, freq \in UserFreqs :
        /\ startNote(note, freq)
        /\ UNCHANGED constVars
        /\ UNCHANGED scopeVars
        /\ UNCHANGED userVars
        /\ UNCHANGED monoVars
        /\ lastCall' = [ op |-> "startNote", arg |-> note, freq |-> freq,
                         ok |-> note \notin DOMAIN activeNotes ]
        /\ UNCHANGED << volume, audioState, recVars, playVars, disabled, threw >>

StopNoteCall ==
    \E note \in UserNotes :
        /\ stopNote(note)
        /\ UNCHANGED constVars
        /\ UNCHANGED scopeVars
        /\ UNCHANGED userVars
        /\ UNCHANGED monoVars
        /\ lastCall' = [ op |-> "stopNote", arg |-> note, freq |-> 0,
                         ok |-> note \in DOMAIN activeNotes ]
        /\ UNCHANGED << volume, audioState, recVars, playVars, disabled >>

\* a faulty variant of VolumeInput: the new volume is applied to the voices
\* that sound and to targetAmp
VolumeInputRetroactive ==
    \E value \in SliderValues :
        /\ volume' = value
        /\ activeNotes' = [ note \in DOMAIN activeNotes |->
                               [ activeNotes[note] EXCEPT !.gain = value ] ]
        /\ targetAmp' = IF DOMAIN activeNotes = {} THEN targetAmp ELSE value
        /\ UNCHANGED constVars
        /\ UNCHANGED scopeVars
        /\ UNCHANGED userVars
        /\ UNCHANGED monoVars
        /\ lastCall' = [ op |-> "volume", arg |-> <<>>, freq |-> 0, ok |-> TRUE ]
        /\ UNCHANGED << leaked, currentFreq, lastFreq, audioState, recVars,
                        playVars, disabled, threw >>

\* the slider's input listener: volume = volumeSlider.value / 100
VolumeInput ==
    \E value \in SliderValues :
        /\ volume' = value
        /\ UNCHANGED constVars
        /\ UNCHANGED scopeVars
        /\ UNCHANGED userVars
        /\ UNCHANGED monoVars
        /\ lastCall' = [ op |-> "volume", arg |-> <<>>, freq |-> 0, ok |-> TRUE ]
        /\ UNCHANGED << voiceVars, audioState, recVars, playVars, disabled, threw >>

\* Spec: the Note Voice Manager called with any note and frequency, and the
\* volume slider moved
Next ==
    \/ StartNoteCall
    \/ StopNoteCall
    \/ VolumeInput

Spec == Init /\ [][Next]_vars

(***************************************************************************)
(* Properties of the Note Voice Manager (under Spec).                      *)
(***************************************************************************)
\* C1: stopNote(noteId) for a note identifier with no entry in activeNotes
\* is a silent no-op: activeNotes, currentFreq, lastFreq and targetAmp are
\* unchanged by the call, and no exception escapes it.
C1_StopInactiveIsNoOp ==
    [][ (lastCall'.op = "stopNote" /\ lastCall'.arg \notin DOMAIN activeNotes)
          => /\ UNCHANGED << activeNotes, currentFreq, lastFreq, targetAmp >>
             /\ ~threw' ]_vars

\* a stop of a note that is not sounding, made while another note sounds
C1_Witness ==
    /\ lastCall.op = "stopNote"
    /\ ~lastCall.ok
    /\ lastCall.arg \notin DOMAIN activeNotes
    /\ DOMAIN activeNotes # {}
    /\ currentFreq # Null
    /\ targetAmp > 0

\* C2: whenever a stopNote call removes the last remaining entry of
\* activeNotes, right after it currentFreq is null and targetAmp is 0, and
\* lastFreq is the value it had before the call.
C2_LastStopClears ==
    [][ (lastCall'.op = "stopNote" /\ DOMAIN activeNotes # {} /\ DOMAIN activeNotes' = {})
          => /\ currentFreq' = Null
             /\ targetAmp' = 0
             /\ lastFreq' = lastFreq ]_vars

\* the last voice has just been stopped; the last frequency is retained
C2_Witness ==
    /\ lastCall.op = "stopNote"
    /\ lastCall.ok
    /\ DOMAIN activeNotes = {}
    /\ currentFreq = Null
    /\ targetAmp = 0
    /\ lastFreq > 0

\* C3: a startNote(id, f2) for an id that startNote has made active and no
\* stopNote(id) has stopped leaves exactly one voice for id in activeNotes,
\* adds no entry, and sets currentFreq to f2.
C3_RestartReplaces ==
    [][ (lastCall'.op = "startNote" /\ lastCall'.arg \in DOMAIN activeNotes)
          => /\ DOMAIN activeNotes' = DOMAIN activeNotes
             /\ activeNotes'[lastCall'.arg].osc = lastCall'.freq
             /\ currentFreq' = lastCall'.freq ]_vars

\* a note restarted with a frequency other than the one it sounded at
C3_Witness ==
    /\ lastCall.op = "startNote"
    /\ ~lastCall.ok
    /\ lastCall.arg \in DOMAIN leaked
    /\ currentFreq = lastCall.freq
    /\ \E k \in UserKeys :
          k.note = lastCall.arg /\ getFrequency(k.name, k.octave) # lastCall.freq

\* C4: at most one oscillator per note identifier is started and not yet
\* given a stop, so that once every identifier has been stopped no started
\* oscillator is left without a scheduled stop.
C4_OneOscillatorPerNote ==
    \A note \in DOMAIN activeNotes \cup DOMAIN leaked : Sounding(note) <= 1

\* C17: in every reachable state, if currentFreq is not null then it is the
\* frequency of some note identifier that activeNotes holds, never that of a
\* note already stopped.
C17_CurrentFreqIsActive ==
    currentFreq # Null
       => \E note \in DOMAIN activeNotes : activeNotes[note].osc = currentFreq

\* C18: a volume change leaves activeNotes, every existing voice, targetAmp,
\* currentFreq and lastFreq unchanged; the new volume is used only by the
\* startNote calls made after the change.
C18_VolumeNotRetroactive ==
    /\ [][ lastCall'.op = "volume"
             => UNCHANGED << activeNotes, targetAmp, currentFreq, lastFreq >> ]_vars
    /\ [][ lastCall'.op = "startNote"
             => /\ activeNotes'[lastCall'.arg].gain = volume
                /\ targetAmp' = volume
                /\ \A note \in DOMAIN activeNotes \ { lastCall'.arg } :
                      activeNotes'[note] = activeNotes[note] ]_vars

\* a note started at volume 50 still sounds at 50, and a note started after
\* the slider moved to 100 sounds at 100
C18_Witness ==
    /\ lastCall.op = "startNote"
    /\ volume = 100
    /\ targetAmp = 100
    /\ \E old \in DOMAIN activeNotes :
          /\ old # lastCall.arg
          /\ activeNotes[old].gain = 50
    /\ activeNotes[lastCall.arg].gain = 100

\* C28: after any sequence of startNote calls with a frequency and stopNote
\* calls, currentFreq is null if and only if activeNotes is empty, and
\* targetAmp is nonzero only if activeNotes is not empty.
C28_SharedStateFollowsVoices ==
    /\ currentFreq = Null <=> DOMAIN activeNotes = {}
    /\ targetAmp # 0 => DOMAIN activeNotes # {}

\* of two notes started, one has just been stopped: the other still
\* sounds, currentFreq and targetAmp are still set
C28_Witness ==
    /\ lastCall.op = "stopNote"
    /\ lastCall.ok
    /\ Cardinality(DOMAIN activeNotes) = 1
    /\ currentFreq # Null
    /\ targetAmp > 0

\* C29: lastFreq always equals the frequency passed to the most recent
\* startNote call, and 0 before any call: no stopNote call changes it, and
\* once it is nonzero it never returns to 0 while only nonzero frequencies
\* are started.
C29_LastFreqIsLastStarted ==
    /\ [](lastCall.op = "init" => lastFreq = 0)
    /\ [][ IF lastCall'.op = "startNote"
           THEN lastFreq' = lastCall'.freq
           ELSE lastFreq' = lastFreq ]_vars
    /\ [][ lastFreq # 0 => lastFreq' # 0 ]_vars

\* a second note has just been started at another frequency than the first,
\* which still sounds
C29_Witness ==
    /\ lastCall.op = "startNote"
    /\ lastFreq = lastCall.freq
    /\ \E note \in DOMAIN activeNotes :
          /\ note # lastCall.arg
          /\ activeNotes[note].osc # lastFreq
          /\ activeNotes[note].osc > 0

(***************************************************************************)
(* Events: the buttons, the keys, the passage of time, the timers.         *)
(***************************************************************************)
\* a call playMelody(curMelody), as the top play button makes it
PlayMelodyCall ==
    /\ playMelody(curMelody)
    /\ UNCHANGED constVars
    /\ UNCHANGED scopeVars
    /\ UNCHANGED userVars
    /\ UNCHANGED monoVars
    /\ lastCall' = [ op |-> "playMelody", arg |-> <<>>, freq |-> 0,
                     ok |-> ~isPlaying /\ curMelody # <<>> ]
    /\ UNCHANGED << voiceVars, volume, recVars, isPlayingRecorded, results, guardAtCallback, threw >>

\* a call playRecording(curMelody, handleResult), as the bottom play button
\* makes it
PlayRecordingCall ==
    /\ playRecording(curMelody)
    /\ UNCHANGED constVars
    /\ UNCHANGED scopeVars
    /\ UNCHANGED userVars
    /\ UNCHANGED monoVars
    /\ lastCall' = [ op |-> "playRecording", arg |-> <<>>, freq |-> 0,
                     ok |-> recordedNotes # <<>> /\ ~isPlayingRecorded ]
    /\ UNCHANGED << voiceVars, volume, recVars, isPlaying, threw >>

RecordCall ==
    /\ record
    /\ UNCHANGED constVars
    /\ UNCHANGED scopeVars
    /\ UNCHANGED userVars
    /\ UNCHANGED monoVars
    /\ lastCall' = [ op |-> "record", arg |-> <<>>, freq |-> 0, ok |-> TRUE ]
    /\ UNCHANGED << voiceVars, volume, playVars, threw >>

\* a press of key k: pointerdown on the keyboard (recordKeyPresses), then
\* mousedown or touchstart on the key (startNote)
KeyPressOf(k) ==
    /\ isRecording => Len(recordedNotes) < MaxRecorded
    /\ recordKeyPresses(k)
    /\ startNote(k.note, getFrequency(k.name, k.octave))
    /\ held' = held \cup { k.note }
    /\ UNCHANGED monoVars
    /\ UNCHANGED constVars
    /\ UNCHANGED scopeVars
    /\ lastCall' = [ op |-> "keyPress", arg |-> k.note, freq |-> 0,
                     ok |-> k.note \notin DOMAIN activeNotes ]
    /\ UNCHANGED << volume, audioState, playVars, disabled, threw >>

KeyPress == \E k \in UserKeys : KeyPressOf(k)

\* a faulty variant of KeyReleaseOf: a release during a playback stops nothing
KeyReleaseOfIgnoredInPlayback(k) ==
    /\ IF isPlaying \/ isPlayingRecorded
       THEN UNCHANGED << voiceVars, threw >>
       ELSE stopNote(k.note)
    /\ held' = held \ { k.note }
    /\ UNCHANGED monoVars
    /\ UNCHANGED constVars
    /\ UNCHANGED scopeVars
    /\ lastCall' = [ op |-> "keyRelease", arg |-> k.note, freq |-> 0,
                     ok |-> k.note \in DOMAIN activeNotes ]
    /\ UNCHANGED << volume, audioState, recVars, playVars, disabled >>

\* mouseup, mouseleave or touchend on key k
KeyReleaseOf(k) ==
    /\ stopNote(k.note)
    /\ held' = held \ { k.note }
    /\ UNCHANGED monoVars
    /\ UNCHANGED constVars
    /\ UNCHANGED scopeVars
    /\ lastCall' = [ op |-> "keyRelease", arg |-> k.note, freq |-> 0,
                     ok |-> k.note \in DOMAIN activeNotes ]
    /\ UNCHANGED << volume, audioState, recVars, playVars, disabled >>

KeyRelease == \E k \in UserKeys : KeyReleaseOf(k)

\* the least time left on a pending timer
RECURSIVE minRem(_)
minRem(ts) ==
    IF Len(ts) = 1 THEN ts[1].rem
    ELSE LET m == minRem(Tail(ts)) IN IF ts[1].rem < m THEN ts[1].rem ELSE m

\* time passes while no timer is due: up to the next due time, and at most
\* TickMs at once
Tick ==
    /\ timers # <<>>
    /\ minRem(timers) > 0
    /\ LET d == IF minRem(timers) < TickMs THEN minRem(timers) ELSE TickMs
       IN  timers' = [ i \in 1..Len(timers) |->
                         [ timers[i] EXCEPT !.rem = timers[i].rem - d ] ]
    /\ UNCHANGED constVars
    /\ UNCHANGED scopeVars
    /\ UNCHANGED userVars
    /\ UNCHANGED monoVars
    /\ lastCall' = [ op |-> "tick", arg |-> <<>>, freq |-> 0, ok |-> TRUE ]
    /\ UNCHANGED << voiceVars, volume, audioState, recVars, isPlaying,
                    isPlayingRecorded, disabled, results, guardAtCallback, threw >>

\* a faulty variant of mayFire: due timers run in any order
mayFireAnyDue(i) == timers[i].rem = 0

\* timer i is due, and no timer registered before it with a delay at most
\* its own is still pending and due
mayFire(i) ==
    /\ timers[i].rem = 0
    /\ \A j \in 1..(i - 1) : ~(timers[j].rem = 0 /\ timers[j].delay <= timers[i].delay)

removeTimer(i) == SubSeq(timers, 1, i - 1) \o SubSeq(timers, i + 1, Len(timers))

FireStart ==
    \E i \in 1..Len(timers) :
        /\ mayFire(i)
        /\ timers[i].fn = "start"
        /\ timerStart(timers[i].note)
        /\ timers' = removeTimer(i)
        /\ UNCHANGED constVars
        /\ UNCHANGED scopeVars
        /\ UNCHANGED userVars
        /\ UNCHANGED monoVars
        /\ lastCall' = [ op |-> "timerStart", arg |-> timers[i].note, freq |-> 0,
                         ok |-> timers[i].note \notin DOMAIN activeNotes ]
        /\ UNCHANGED << volume, audioState, recVars, isPlaying, isPlayingRecorded,
                        disabled, results, guardAtCallback, threw >>

FireStop ==
    \E i \in 1..Len(timers) :
        /\ mayFire(i)
        /\ timers[i].fn = "stop"
        /\ stopNote(timers[i].note)
        /\ timers' = removeTimer(i)
        /\ UNCHANGED constVars
        /\ UNCHANGED scopeVars
        /\ UNCHANGED userVars
        /\ UNCHANGED monoVars
        /\ lastCall' = [ op |-> "timerStop", arg |-> timers[i].note, freq |-> 0,
                         ok |-> timers[i].note \in DOMAIN activeNotes ]
        /\ UNCHANGED << volume, audioState, recVars, isPlaying, isPlayingRecorded,
                        disabled, results, guardAtCallback >>

FireMelodyDone ==
    \E i \in 1..Len(timers) :
        /\ mayFire(i)
        /\ timers[i].fn = "done" /\ timers[i].src = "melody"
        /\ melodyDone
        /\ timers' = removeTimer(i)
        /\ UNCHANGED constVars
        /\ UNCHANGED scopeVars
        /\ UNCHANGED userVars
        /\ UNCHANGED monoVars
        /\ lastCall' = [ op |-> "melodyDone", arg |-> <<>>, freq |-> 0, ok |-> TRUE ]
        /\ UNCHANGED << voiceVars, volume, audioState, recVars, threw >>

FireRecordingDone ==
    \E i \in 1..Len(timers) :
        /\ mayFire(i)
        /\ timers[i].fn = "done" /\ timers[i].src = "recording"
        /\ recordingDone(timers[i].melody)
        /\ timers' = removeTimer(i)
        /\ UNCHANGED constVars
        /\ UNCHANGED scopeVars
        /\ UNCHANGED userVars
        /\ UNCHANGED monoVars
        /\ lastCall' = [ op |-> "recordingDone", arg |-> <<>>, freq |-> 0, ok |-> TRUE ]
        /\ UNCHANGED << voiceVars, volume, audioState, recVars, threw >>

FireTimer == FireStart \/ FireStop \/ FireMelodyDone \/ FireRecordingDone

(***************************************************************************)
(* SpecPlay: playMelody and playRecording called, at any time and also     *)
(* while the same kind of playback runs, from a state a recording session  *)
(* has left (its keys released).                                           *)
(***************************************************************************)
InitPlay ==
    /\ visualAmp = 0
    /\ mono = monoLoaded
    /\ held = {}
    /\ recordedNotes \in Recordings
    /\ curMelody \in Melodies
    /\ activeNotes = <<>>
    /\ leaked = <<>>
    /\ volume = 50
    /\ targetAmp = 0
    /\ currentFreq = Null
    /\ lastFreq =
          IF recordedNotes = <<>> THEN 0
          ELSE LET m == matchNote(recordedNotes[Len(recordedNotes)].note)
               IN  getFrequency(m[1], parseInt(m[2]))
    /\ audioState = IF recordedNotes = <<>> THEN "suspended" ELSE "running"
    /\ isRecording = FALSE
    /\ isPlaying = FALSE
    /\ isPlayingRecorded = FALSE
    /\ disabled = [ playButton |-> FALSE, recordBtn |-> FALSE,
                    playBottomBtn |-> recordedNotes = <<>> ]
    /\ timers = <<>>
    /\ results = <<>>
    /\ guardAtCallback = <<>>
    /\ threw = FALSE
    /\ lastCall = [ op |-> IF recordedNotes = <<>> THEN "init" ELSE "record",
                    arg |-> <<>>, freq |-> 0, ok |-> TRUE ]

\* the two kinds of playback do not run at once here
NextPlay ==
    \/ ~isPlayingRecorded /\ PlayMelodyCall
    \/ ~isPlaying /\ PlayRecordingCall
    \/ Tick
    \/ FireStart
    \/ FireStop
    \/ FireMelodyDone
    \/ FireRecordingDone

SpecPlay == InitPlay /\ [][NextPlay]_vars

(***************************************************************************)
(* Properties of the Playback Scheduler and the Matcher (under SpecPlay).  *)
(***************************************************************************)
\* C5: single-flight.  A playMelody call made while isPlaying is true, and a
\* playRecording call made while isPlayingRecorded is true, is rejected: it
\* registers no timer and changes no guard flag, recorded sequence or voice
\* state.  Hence in every reachable state at most one completion timer is
\* pending per playback kind.
C5_SingleFlight ==
    /\ [](\A src \in { "melody", "recording" } :
             Cardinality({ i \in 1..Len(timers) :
                             timers[i].fn = "done" /\ timers[i].src = src }) <= 1)
    /\ [][ (\/ lastCall'.op = "playMelody" /\ isPlaying
            \/ lastCall'.op = "playRecording" /\ isPlayingRecorded)
             => UNCHANGED << timers, isPlaying, isPlayingRecorded, recordedNotes,
                             isRecording, activeNotes, leaked, targetAmp,
                             currentFreq, lastFreq >> ]_vars

\* playMelody has just been called while a melody plays, half way through it
C5_Witness ==
    /\ lastCall.op = "playMelody"
    /\ ~lastCall.ok
    /\ isPlaying
    /\ Cardinality({ i \in 1..Len(timers) :
                       timers[i].fn = "done" /\ timers[i].src = "melody" }) = 1
    /\ DOMAIN activeNotes # {}
    /\ \E i \in 1..Len(timers) : timers[i].fn = "start"

\* C6: for a melody of n >= 1 characters that all resolve to a note,
\* playMelody registers exactly n start/stop pairs: the start of position i
\* (from 0) at 500*i ms, its stop at 500*(i+1) ms for i < n-1 and at
\* 500*(n-1)+1000 ms for the last position, and the completion at the last
\* stop plus 500 ms.
C6_MelodyOffsets ==
    [][ (/\ lastCall'.op = "playMelody"
         /\ lastCall'.ok
         /\ \A i \in 1..Len(curMelody) : melodyNote(curMelody[i]) # <<>>)
          => LET n == Len(curMelody)
                 new == SubSeq(timers', Len(timers) + 1, Len(timers'))
             IN  /\ n >= 1
                 /\ Len(new) = 2 * n + 1
                 /\ \A i \in 0..(n - 1) :
                       /\ new[2 * i + 1].fn = "start"
                       /\ new[2 * i + 1].note = melodyNote(curMelody[i + 1])
                       /\ new[2 * i + 1].delay = 500 * i
                       /\ new[2 * i + 2].fn = "stop"
                       /\ new[2 * i + 2].note = melodyNote(curMelody[i + 1])
                       /\ new[2 * i + 2].delay =
                             IF i < n - 1 THEN 500 * (i + 1) ELSE 500 * (n - 1) + 1000
                 /\ new[2 * n + 1].fn = "done"
                 /\ new[2 * n + 1].delay = new[2 * n].delay + 500 ]_vars

\* a melody of two resolving characters has just been scheduled: starts at
\* 0 and 500, stops at 500 and 1500, completion at 2000
C6_Witness ==
    /\ lastCall.op = "playMelody"
    /\ lastCall.ok
    /\ curMelody = << "A", "a" >>
    /\ [ i \in 1..Len(timers) |-> << timers[i].fn, timers[i].rem >> ]
          = << << "start", 0 >>, << "stop", 500 >>, << "start", 500 >>,
               << "stop", 1500 >>, << "done", 2000 >> >>

C9_SuccessIffEqual ==
    lastCall.op = "recordingDone"
       => LET expected == expectedNotes(curMelody)
              actual == actualNotes
              same == /\ Len(expected) = Len(actual)
                      /\ \A i \in 1..Len(expected) : expected[i] = actual[i]
          IN  results = << IF same THEN "success!" ELSE "fail!" >>

\* a recording that starts with the expected sequence and goes on has just
\* been matched: "fail!"
C9_Witness ==
    /\ lastCall.op = "recordingDone"
    /\ results = << "fail!" >>
    /\ Len(expectedNotes(curMelody)) >= 1
    /\ Len(actualNotes) > Len(expectedNotes(curMelody))
    /\ \A i \in 1..Len(expectedNotes(curMelody)) : expectedNotes(curMelody)[i] = actualNotes[i]

\* C11, as stated: for playRecording, as for playMelody, the completion is
\* registered at exactly the final running offset plus the release, that is
\* 500 ms after the stop of the last entry, nothing added.
C11_CompletionAtRelease ==
    [][ (lastCall'.op \in { "playMelody", "playRecording" } /\ lastCall'.ok)
          => LET n == IF lastCall'.op = "playMelody"
                      THEN Len(curMelody) ELSE Len(recordedNotes)
                 new == SubSeq(timers', Len(timers) + 1, Len(timers'))
             IN  /\ new[Len(new)].fn = "done"
                 /\ new[Len(new)].delay = (500 * (n - 1) + 1000) + 500 ]_vars

\* C11, amended: playMelody registers its completion at exactly the final
\* running offset plus the release (500 ms after the stop of the last entry);
\* playRecording registers its completion 100 ms later than that, at the
\* final running offset plus the release plus 100 ms.
C11_CompletionDelays ==
    [][ (lastCall'.op \in { "playMelody", "playRecording" } /\ lastCall'.ok)
          => LET n == IF lastCall'.op = "playMelody"
                      THEN Len(curMelody) ELSE Len(recordedNotes)
                 new == SubSeq(timers', Len(timers) + 1, Len(timers'))
             IN  /\ new[Len(new)].fn = "done"
                 /\ \A j \in 1..(Len(new) - 1) : new[j].fn # "done"
                 /\ new[Len(new)].delay =
                       (500 * (n - 1) + 1000) + 500
                          + (IF lastCall'.op = "playRecording" THEN 100 ELSE 0) ]_vars

\* a recording of two entries has just been scheduled: last stop at 1500,
\* completion at 2100
C11_Witness ==
    /\ lastCall.op = "playRecording"
    /\ lastCall.ok
    /\ Len(recordedNotes) = 2
    /\ Len(timers) = 5
    /\ timers[4].fn = "stop" /\ timers[4].rem = 1500
    /\ timers[5].fn = "done" /\ timers[5].rem = 2100

\* the melodies the user's keys can spell
SpellableMelodies == StringsUpTo({ k.label[1] : k \in UserKeys }, MaxMelodyLen)

\* playRecording alone, called at any time, with the event loop running
\* every due timer and time passing: weak fairness of Tick and of the timer
\* callbacks
NextPlayRecorded ==
    \/ PlayRecordingCall
    \/ Tick
    \/ FireStart
    \/ FireStop
    \/ FireRecordingDone

\* the melody is empty or one recorded key's label
InitPlayRecorded ==
    /\ InitPlay
    /\ curMelody \in { <<>> } \cup { k.label : k \in RecordedKeys }

SpecPlayRecorded ==
    /\ InitPlayRecorded
    /\ [][NextPlayRecorded]_vars
    /\ WF_vars(Tick)
    /\ WF_vars(FireStart)
    /\ WF_vars(FireStop)
    /\ WF_vars(FireRecordingDone)

\* C12: every accepted playRecording call invokes its callback exactly once,
\* with "success!" or "fail!", and isPlayingRecorded is already false when
\* the callback runs.  (results and guardAtCallback are emptied by an
\* accepted call.)
C12_CallbackOnce ==
    /\ [](/\ Len(results) <= 1
          /\ \A i \in 1..Len(results) : results[i] \in { "success!", "fail!" }
          /\ guardAtCallback = [ i \in 1..Len(results) |-> FALSE ]
          /\ isPlayingRecorded => results = <<>>)
    /\ isPlayingRecorded ~> (~isPlayingRecorded /\ Len(results) = 1)

\* the callback of an accepted call has just run, with "fail!", and found
\* the guard cleared
C12_Witness ==
    /\ lastCall.op = "recordingDone"
    /\ results = << "fail!" >>
    /\ guardAtCallback = << FALSE >>
    /\ ~isPlayingRecorded
    /\ timers = <<>>

\* C13: within one playback and with no user key events, notes never
\* overlap: the stop of position i runs before the start of position i+1
\* (timers of equal delay run in registration order), so activeNotes never
\* holds more than one note, no note is started while it sounds, and a
\* playback ends with every note stopped, also when the same label repeats
\* at adjacent positions.
C13_NotesNeverOverlap ==
    /\ Cardinality(DOMAIN activeNotes) <= 1
    /\ leaked = <<>>
    /\ lastCall.op = "timerStart" => lastCall.ok /\ DOMAIN activeNotes = { lastCall.arg }
    /\ lastCall.op = "timerStop" => lastCall.ok /\ activeNotes = <<>>
    /\ timers = <<>> => activeNotes = <<>>

\* the melody "Aa" plays A2 twice in a row: the second start has just run,
\* at the instant of the first stop, and A2 sounds once
C13_Witness ==
    /\ curMelody = << "A", "a" >>
    /\ isPlaying
    /\ lastCall.op = "timerStart"
    /\ lastCall.ok
    /\ DOMAIN activeNotes = { << "A", "2" >> }
    /\ leaked = <<>>
    /\ [ i \in 1..Len(timers) |-> << timers[i].fn, timers[i].rem >> ]
          = << << "stop", 1000 >>, << "done", 1500 >> >>

\* C16: playRecording called while the captured sequence is empty is a
\* no-op: it does not set isPlayingRecorded, registers no timer, never
\* invokes the callback and raises no error.
C16_EmptyRecordingNoOp ==
    /\ [][ (lastCall'.op = "playRecording" /\ recordedNotes = <<>>)
             => /\ ~isPlayingRecorded'
                /\ timers' = timers
                /\ results' = results
                /\ ~threw' ]_vars
    /\ [](recordedNotes = <<>>
             => /\ results = <<>>
                /\ ~isPlayingRecorded
                /\ \A i \in 1..Len(timers) : timers[i].src # "recording")

\* with nothing recorded, playRecording has just been called after a melody
\* has played
C16_Witness ==
    /\ lastCall.op = "playRecording"
    /\ ~lastCall.ok
    /\ recordedNotes = <<>>
    /\ audioState = "running"
    /\ ~isPlayingRecorded
    /\ timers = <<>>
    /\ results = <<>>

\* C26: the completion of a playback runs only after every note-stop timer
\* of that playback has run; with no user key events during the playback,
\* at the completion activeNotes is empty, currentFreq is null and targetAmp
\* is 0.
C26_CompletionAfterStops ==
    /\ [][ lastCall'.op \in { "melodyDone", "recordingDone" }
             => LET src == IF lastCall'.op = "melodyDone" THEN "melody" ELSE "recording"
                IN  \A i \in 1..Len(timers) :
                       timers[i].src = src => timers[i].fn = "done" ]_vars
    /\ [](lastCall.op \in { "melodyDone", "recordingDone" }
             => activeNotes = <<>> /\ currentFreq = Null /\ targetAmp = 0)

\* the playback of a recording of three entries has just completed
C26_Witness ==
    /\ lastCall.op = "recordingDone"
    /\ Len(recordedNotes) = 3
    /\ timers = <<>>
    /\ activeNotes = <<>>
    /\ currentFreq = Null
    /\ targetAmp = 0
    /\ lastFreq > 0

\* C27: for a captured sequence of n >= 1 entries, playRecording registers
\* the entries in recorded order with the fixed durations of playMelody:
\* entry i (from 0) starts at 500*i ms and stops at 500*(i+1) ms, except the
\* last entry, which stops 1000 ms after its start.
C27_RecordingOffsets ==
    [][ (lastCall'.op = "playRecording" /\ lastCall'.ok)
          => LET n == Len(recordedNotes)
                 new == SubSeq(timers', Len(timers) + 1, Len(timers'))
             IN  /\ n >= 1
                 /\ Len(new) = 2 * n + 1
                 /\ \A i \in 0..(n - 1) :
                       /\ new[2 * i + 1].fn = "start"
                       /\ new[2 * i + 1].note = recordedNotes[i + 1].note
                       /\ new[2 * i + 1].delay = 500 * i
                       /\ new[2 * i + 2].fn = "stop"
                       /\ new[2 * i + 2].note = recordedNotes[i + 1].note
                       /\ new[2 * i + 2].delay =
                             IF i < n - 1 THEN 500 * (i + 1) ELSE 500 * i + 1000 ]_vars

\* the recording B4, A2, A2 has just been scheduled: starts at 0, 500 and
\* 1000, stops at 500, 1000 and 2000
C27_Witness ==
    /\ lastCall.op = "playRecording"
    /\ lastCall.ok
    /\ [ i \in 1..Len(recordedNotes) |-> recordedNotes[i].note ]
          = << << "B", "4" >>, << "A", "2" >>, << "A", "2" >> >>
    /\ [ i \in 1..6 |-> << timers[i].fn, timers[i].note, timers[i].rem >> ]
          = << << "start", << "B", "4" >>, 0 >>, << "stop", << "B", "4" >>, 500 >>,
               << "start", << "A", "2" >>, 500 >>, << "stop", << "A", "2" >>, 1000 >>,
               << "start", << "A", "2" >>, 1000 >>, << "stop", << "A", "2" >>, 2000 >> >>

(***************************************************************************)
(* SpecRec: the record button and the keys, from the loaded page.          *)
(***************************************************************************)
NextRec ==
    \/ RecordCall
    \/ KeyPress
    \/ KeyRelease

SpecRec == Init /\ [][NextRec]_vars

\* C14: a key press appends exactly one (note, label) entry to the end of
\* the captured sequence if and only if recording is active, and leaves the
\* sequence unchanged while recording is inactive.  During one recording
\* session the sequence only grows by appending, in key-press order.
C14_PressAppendsIffRecording ==
    /\ [][ lastCall'.op = "keyPress"
             => IF isRecording
                THEN /\ Len(recordedNotes') = Len(recordedNotes) + 1
                     /\ SubSeq(recordedNotes', 1, Len(recordedNotes)) = recordedNotes
                     /\ recordedNotes'[Len(recordedNotes')].note = lastCall'.arg
                     /\ \E k \in UserKeys :
                           /\ k.note = lastCall'.arg
                           /\ recordedNotes'[Len(recordedNotes')].label = k.label
                ELSE UNCHANGED recordedNotes ]_vars
    /\ [][ (isRecording /\ isRecording')
             => /\ Len(recordedNotes') >= Len(recordedNotes)
                /\ SubSeq(recordedNotes', 1, Len(recordedNotes)) = recordedNotes ]_vars

\* while recording, the key B4 has just been pressed after the key A2
C14_Witness ==
    /\ lastCall.op = "keyPress"
    /\ isRecording
    /\ Len(recordedNotes) = 2
    /\ recordedNotes[1] = [ note |-> << "A", "2" >>, label |-> << "A" >> ]
    /\ recordedNotes[2] = [ note |-> << "B", "4" >>, label |-> << SpaceGlyph >> ]
    /\ lastCall.arg = << "B", "4" >>

\* C15: toggling record from inactive to active empties the captured
\* sequence and sets the active flag; toggling from active to inactive
\* clears the flag and leaves the captured sequence as it was, and the
\* sequence stays unchanged until the next start of recording.
C15_RecordToggle ==
    /\ [][ lastCall'.op = "record" => isRecording' = ~isRecording ]_vars
    /\ [][ (~isRecording /\ isRecording') => recordedNotes' = <<>> ]_vars
    /\ [][ ~isRecording' => recordedNotes' = recordedNotes ]_vars

\* a recording of two entries has been stopped and a key pressed since
C15_Witness ==
    /\ ~isRecording
    /\ Len(recordedNotes) = 2
    /\ lastCall.op = "keyPress"
    /\ lastCall.arg # recordedNotes[2].note

(***************************************************************************)
(* SpecE2E: one recording session that spells curMelody on the keys, then  *)
(* playRecording(curMelody, handleResult).  Keys are released at any time. *)
(* The event loop runs every due timer, and time passes: weak fairness of  *)
(* Tick and of the timer callbacks.                                        *)
(***************************************************************************)
InitE2E ==
    /\ Loaded
    /\ curMelody \in SpellableMelodies

E2EStartRecording ==
    /\ lastCall.op = "init"
    /\ RecordCall

E2EPressNext ==
    /\ isRecording
    /\ Len(recordedNotes) < Len(curMelody)
    /\ \E k \in UserKeys :
          /\ k.label = << curMelody[Len(recordedNotes) + 1] >>
          /\ KeyPressOf(k)

E2ERelease ==
    \E k \in UserKeys :
        /\ k.note \in DOMAIN activeNotes
        /\ KeyReleaseOf(k)

E2EStopRecording ==
    /\ isRecording
    /\ Len(recordedNotes) = Len(curMelody)
    /\ RecordCall

\* the click on the bottom play button comes once no key is held any more
E2EPlayRecording ==
    /\ held = {}
    /\ ~isRecording
    /\ lastCall.op # "init"
    /\ ~isPlayingRecorded
    /\ results = <<>>
    /\ PlayRecordingCall

NextE2E ==
    \/ E2EStartRecording
    \/ E2EPressNext
    \/ E2ERelease
    \/ E2EStopRecording
    \/ E2EPlayRecording
    \/ Tick
    \/ FireStart
    \/ FireStop
    \/ FireRecordingDone

SpecE2E ==
    /\ InitE2E
    /\ [][NextE2E]_vars
    /\ WF_vars(Tick)
    /\ WF_vars(FireStart)
    /\ WF_vars(FireStop)
    /\ WF_vars(FireRecordingDone)

\* C10, as stated: a recording session that presses in order exactly the
\* keys whose labels spell the melody, then playRecording(melody, cb),
\* eventually invokes cb with "success!".
C10_AlwaysSuccess ==
    (lastCall.op = "playRecording") ~> (results = << "success!" >>)

\* C10, amended: for a melody of at least one character, a recording session
\* that presses in order exactly the keys whose labels spell it, then
\* playRecording(melody, cb), eventually invokes cb with "success!".  (For
\* the empty melody nothing is recorded and playRecording returns without
\* calling cb.)
C10_NonEmptySuccess ==
    (lastCall.op = "playRecording" /\ curMelody # <<>>) ~> (results = << "success!" >>)

\* the callback has just delivered "success!" for a two-key melody that
\* holds U+2423
C10_Witness ==
    /\ lastCall.op = "recordingDone"
    /\ results = << "success!" >>
    /\ Len(curMelody) = 2
    /\ curMelody[2] = SpaceGlyph
    /\ Len(recordedNotes) = 2

(***************************************************************************)
(* SpecScope: the visualizer's frame callback, the recorder and the two    *)
(* playbacks, from the loaded page.                                        *)
(***************************************************************************)
\* const AMP_TIME = 0.2, in milliseconds
AMP_TIME == 200

\* the milliseconds between two frames
FrameDeltas == { 50, 200 }

\* a faulty variant of drawScope: a frame that has eased to zero clears
\* lastFreq
drawScopeClearsLast(delta) ==
    LET step == (delta * 100) \div AMP_TIME
    IN  /\ visualAmp' =
              IF visualAmp < targetAmp
              THEN (IF visualAmp + step < targetAmp THEN visualAmp + step ELSE targetAmp)
              ELSE IF visualAmp > targetAmp
              THEN (IF visualAmp - step > targetAmp THEN visualAmp - step ELSE targetAmp)
              ELSE visualAmp
        /\ lastFreq' = IF visualAmp' = 0 THEN 0 ELSE lastFreq
        /\ UNCHANGED << targetAmp, currentFreq >>

\* the amplitude easing of a frame drawn delta ms after the last one; the
\* frame reads targetAmp, currentFreq and lastFreq
drawScope(delta) ==
    LET step == (delta * 100) \div AMP_TIME
    IN  /\ visualAmp' =
              IF visualAmp < targetAmp
              THEN (IF visualAmp + step < targetAmp THEN visualAmp + step ELSE targetAmp)
              ELSE IF visualAmp > targetAmp
              THEN (IF visualAmp - step > targetAmp THEN visualAmp - step ELSE targetAmp)
              ELSE visualAmp
        /\ UNCHANGED << targetAmp, currentFreq, lastFreq >>

\* a requestAnimationFrame callback that changes what is drawn
DrawFrame ==
    \E delta \in FrameDeltas :
        /\ visualAmp # targetAmp
        /\ drawScope(delta)
        /\ UNCHANGED constVars
        /\ UNCHANGED userVars
        /\ UNCHANGED monoVars
        /\ lastCall' = [ op |-> "drawScope", arg |-> <<>>, freq |-> 0, ok |-> TRUE ]
        /\ UNCHANGED << activeNotes, leaked, volume, audioState, recVars, playVars,
                        disabled, threw >>

\* pointerdown on the key element k: recordKeyPresses alone
PointerDown ==
    \E k \in UserKeys :
        /\ isRecording => Len(recordedNotes) < MaxRecorded
        /\ recordKeyPresses(k)
        /\ UNCHANGED constVars
        /\ UNCHANGED scopeVars
        /\ UNCHANGED userVars
        /\ UNCHANGED monoVars
        /\ lastCall' = [ op |-> "recordKeyPresses", arg |-> k.note, freq |-> 0,
                         ok |-> isRecording ]
        /\ UNCHANGED << voiceVars, volume, audioState, playVars, disabled, threw >>

\* a click reaches its listener only while the button is not disabled
ClickPlay == ~disabled.playButton /\ PlayMelodyCall

ClickRecord == ~disabled.recordBtn /\ RecordCall

ClickPlayBottom == ~disabled.playBottomBtn /\ PlayRecordingCall

NextScope ==
    \/ DrawFrame
    \/ ClickRecord
    \/ PointerDown
    \/ ClickPlay
    \/ ClickPlayBottom
    \/ Tick
    \/ FireStart
    \/ FireStop
    \/ FireMelodyDone
    \/ FireRecordingDone

\* the melody is one key's label
InitScope ==
    /\ Loaded
    /\ curMelody \in { k.label : k \in UserKeys }

SpecScope == InitScope /\ [][NextScope]_vars

\* C19: targetAmp, currentFreq and lastFreq are written only by startNote
\* and stopNote: the visualizer's frame callback, the recorder operations
\* and the guard and completion steps of playMelody and playRecording leave
\* all three unchanged.
C19_OnlyVoiceManagerWrites ==
    /\ [][ lastCall'.op \in { "drawScope", "record", "recordKeyPresses", "playMelody",
                              "playRecording", "melodyDone", "recordingDone" }
             => UNCHANGED << targetAmp, currentFreq, lastFreq >> ]_vars
    /\ [][ << targetAmp, currentFreq, lastFreq >>' # << targetAmp, currentFreq, lastFreq >>
             => lastCall'.op \in { "timerStart", "timerStop" } ]_vars

\* after the last note of a playback has stopped, a frame has just eased the
\* drawn amplitude down to zero: the last frequency is still there
C19_Witness ==
    /\ lastCall.op = "drawScope"
    /\ visualAmp = 0
    /\ targetAmp = 0
    /\ currentFreq = Null
    /\ lastFreq > 0
    /\ timers # <<>>

(***************************************************************************)
(* SpecResolve: resolveNoteFromLabel called with any label and octave.     *)
(***************************************************************************)
LabelChars == { "a", "A", "z", " ", SpaceGlyph }

Labels == StringsUpTo(LabelChars, MaxLabelLen)

PreferredOctaves == { Null, startOctave, endOctave }

\* one call on the loaded page (the function reads the keyboard only, so a
\* call leaves nothing behind for the next)
ResolveCall ==
    \E label \in Labels, preferredOctave \in PreferredOctaves :
        /\ lastCall.op = "init"
        /\ lastCall' = [ op |-> "resolveNoteFromLabel", arg |-> label, freq |-> 0,
                         ok |-> resolveNoteFromLabel(label, preferredOctave) # <<>>,
                         octave |-> preferredOctave,
                         res |-> resolveNoteFromLabel(label, preferredOctave) ]
        /\ UNCHANGED constVars
        /\ UNCHANGED scopeVars
        /\ UNCHANGED userVars
        /\ UNCHANGED monoVars
        /\ UNCHANGED << voiceVars, volume, audioState, recVars, playVars, disabled,
                        threw >>

SpecResolve == Init /\ [][ResolveCall]_vars

\* C20: resolveNoteFromLabel ignores case and surrounding white space: a
\* label in any mix of upper and lower case and with leading and trailing
\* white space resolves to what its upper-case trimmed form resolves to.
C20_ResolveIgnoresCaseAndSpace ==
    lastCall.op = "resolveNoteFromLabel"
       => lastCall.res
             = resolveNoteFromLabel(toUpperCase(trim(lastCall.arg)), lastCall.octave)

\* " a " has just been resolved, to A2, as "A" is
C20_Witness ==
    /\ lastCall.op = "resolveNoteFromLabel"
    /\ lastCall.arg = << " ", "a", " " >>
    /\ lastCall.res = << "A", "2" >>
    /\ resolveNoteFromLabel(<< "A" >>, lastCall.octave) = << "A", "2" >>

(***************************************************************************)
(* SpecResolveAny: resolveNoteFromLabel over a keyboard whose first keys   *)
(* carry any labels, duplicates included.                                  *)
(***************************************************************************)
AssignedLabels == { << "A" >>, << "b" >>, << SpaceGlyph >> }

\* the first NumLabelledKeys keys in construction order, labelled by f
Relabelled(f) ==
    [ i \in 1..NumLabelledKeys |-> [ keyboard[i] EXCEPT !.label = f[i] ] ]

Assignments == [ 1..NumLabelledKeys -> AssignedLabels ]

AskedLabels == { << "a" >>, << "B" >>, << SpaceGlyph >>, << "z" >> }

AskedOctaves == { Null, startOctave, startOctave + 1, endOctave }

ResolveAnyCall ==
    \E f \in Assignments, label \in AskedLabels, preferredOctave \in AskedOctaves :
        /\ lastCall.op = "init"
        /\ lastCall' = [ op |-> "resolveAmong", arg |-> label, freq |-> 0,
                         ok |-> resolveAmong(Relabelled(f), label, preferredOctave) # <<>>,
                         keys |-> Relabelled(f),
                         octave |-> preferredOctave,
                         res |-> resolveAmong(Relabelled(f), label, preferredOctave) ]
        /\ UNCHANGED constVars
        /\ UNCHANGED scopeVars
        /\ UNCHANGED userVars
        /\ UNCHANGED monoVars
        /\ UNCHANGED << voiceVars, volume, audioState, recVars, playVars, disabled,
                        threw >>

SpecResolveAny == Init /\ [][ResolveAnyCall]_vars

\* C21: for any assignment of labels to keys, duplicates included,
\* resolveNoteFromLabel returns null when no key carries the label; when
\* preferredOctave is given and the identifier of some matching key ends in
\* that octave, the identifier of the first such key; otherwise the
\* identifier of the first matching key in construction order.
C21_ResolveOrder ==
    lastCall.op = "resolveAmong"
       => LET keys == lastCall.keys
              same(a, b) == toUpperCase(a) = toUpperCase(b)
              matching == { i \in 1..Len(keys) : same(keys[i].label, lastCall.arg) }
              inOctave == { i \in matching :
                              lastCall.octave # Null
                              /\ keys[i].note[Len(keys[i].note)]
                                    = NumToString(lastCall.octave)[1] }
              first(S) == CHOOSE i \in S : \A j \in S : i <= j
          IN  IF matching = {} THEN lastCall.res = <<>>
              ELSE IF inOctave # {} THEN lastCall.res = keys[first(inOctave)].note
              ELSE lastCall.res = keys[first(matching)].note

\* "B" resolved with preferred octave 3 on a keyboard where A2, A#2 and C3
\* all carry "b": C3, not the first match A2
C21_Witness ==
    /\ lastCall.op = "resolveAmong"
    /\ lastCall.arg = << "B" >>
    /\ lastCall.octave = 3
    /\ [ i \in 1..4 |-> lastCall.keys[i].label ]
          = << << "b" >>, << "b" >>, << "A" >>, << "b" >> >>
    /\ lastCall.res = << "C", "3" >>

(***************************************************************************)
(* SpecFreq: getFrequency called with any pitch class and octave.          *)
(* Frequencies are whole millihertz.                                       *)
(***************************************************************************)
Octaves == 0..MaxOctave

GetFrequencyCall ==
    \E i \in 1..Len(noteOrder), octave \in Octaves :
        /\ lastCall.op = "init"
        /\ lastCall' = [ op |-> "getFrequency", arg |-> noteOrder[i], freq |-> 0,
                         ok |-> TRUE,
                         octave |-> octave,
                         res |-> getFrequency(noteOrder[i], octave) ]
        /\ UNCHANGED constVars
        /\ UNCHANGED scopeVars
        /\ UNCHANGED userVars
        /\ UNCHANGED monoVars
        /\ UNCHANGED << voiceVars, volume, audioState, recVars, playVars, disabled,
                        threw >>

SpecFreq == Init /\ [][GetFrequencyCall]_vars

\* C22: getFrequency('A', 4) is exactly 440: the key number of A4 is 57, so
\* the exponent (keyNumber - 57) / 12 is 0.
C22_A4Is440 ==
    (lastCall.op = "getFrequency" /\ lastCall.arg = << "A" >> /\ lastCall.octave = 4)
       => /\ lastCall.res = 440 * 1000
          /\ keyNumber(lastCall.arg, lastCall.octave) = 57

\* getFrequency('A', 4) has just returned 440 Hz
C22_Witness ==
    /\ lastCall.op = "getFrequency"
    /\ lastCall.arg = << "A" >>
    /\ lastCall.octave = 4
    /\ lastCall.res = 440000

\* C23: for all pitch classes of the chromatic scale and all octaves,
\* getFrequency is strictly increasing in keyNumber = chromaticIndex +
\* 12 * octave, and one octave up doubles the frequency (here: to the last
\* millihertz kept, which the halving below A4 rounds down).
C23_Monotone ==
    lastCall.op = "getFrequency"
       => LET index(note) == CHOOSE i \in 0..11 : noteOrder[i + 1] = note
              number(note, octave) == index(note) + 12 * octave
              mine == number(lastCall.arg, lastCall.octave)
              up == getFrequency(lastCall.arg, lastCall.octave + 1)
          IN  /\ \A i \in 1..Len(noteOrder), octave \in Octaves :
                    number(noteOrder[i], octave) > mine
                       => getFrequency(noteOrder[i], octave) > lastCall.res
              /\ up - 2 * lastCall.res \in { 0, 1 }
              /\ lastCall.res > 0

\* getFrequency('A', 5) has just returned 880 Hz, the double of
\* getFrequency('A', 4) and more than getFrequency('G#', 5)
C23_Witness ==
    /\ lastCall.op = "getFrequency"
    /\ lastCall.arg = << "A" >>
    /\ lastCall.octave = 5
    /\ lastCall.res = 880000
    /\ lastCall.res = 2 * getFrequency(<< "A" >>, 4)
    /\ lastCall.res > getFrequency(<< "G", "#" >>, 5)
    /\ getFrequency(<< "G", "#" >>, 5) > getFrequency(<< "A" >>, 4)

\* C24: when record, playMelody and playRecording are triggered only by
\* clicks on buttons that are not disabled, no reachable state has two of
\* isPlaying, isPlayingRecorded and isRecording true at once.
C24_OneActivityAtATime ==
    /\ ~(isPlaying /\ isPlayingRecorded)
    /\ ~(isPlaying /\ isRecording)
    /\ ~(isPlayingRecorded /\ isRecording)

\* a melody plays while a recording waits to be played back: the record and
\* the bottom play button are disabled
C24_Witness ==
    /\ isPlaying
    /\ recordedNotes # <<>>
    /\ disabled.recordBtn
    /\ disabled.playBottomBtn
    /\ ~disabled.playButton
    /\ ~isRecording
    /\ ~isPlayingRecorded

(***************************************************************************)
(* SpecJam: the user plays keys while a melody or a recording plays back.  *)
(***************************************************************************)
\* the melody played back while keys are pressed: the label of the first key
JamMelodies == { << "A" >> }

\* the recordings played back while keys are pressed: at most one entry
JamRecordings == { r \in Recordings : Len(r) <= 1 }

InitJam ==
    /\ InitPlay
    /\ curMelody \in JamMelodies
    /\ recordedNotes \in JamRecordings

NextJam ==
    \/ ~isPlayingRecorded /\ PlayMelodyCall
    \/ ~isPlaying /\ PlayRecordingCall
    \/ KeyPress
    \/ KeyRelease
    \/ Tick
    \/ FireStart
    \/ FireStop
    \/ FireMelodyDone
    \/ FireRecordingDone

SpecJam == InitJam /\ [][NextJam]_vars

\* C30: under any interleaving of key presses and releases with the timers
\* of a playback, once the playback has completed and every pressed key has
\* been released, activeNotes is empty, currentFreq is null and targetAmp
\* is 0.
C30_SilentWhenAllReleased ==
    (~isPlaying /\ ~isPlayingRecorded /\ held = {})
        => /\ activeNotes = <<>>
           /\ currentFreq = Null
           /\ targetAmp = 0

\* a playback has just completed after its note was restarted by a key
\* press (the first oscillator is left over), and no key is held
C30_Witness ==
    /\ lastCall.op \in { "melodyDone", "recordingDone" }
    /\ ~isPlaying
    /\ ~isPlayingRecorded
    /\ held = {}
    /\ leaked # <<>>
    /\ activeNotes = <<>>
    /\ currentFreq = Null
    /\ targetAmp = 0

(***************************************************************************)
(* SpecDuet: one key is pressed and released while a melody with a rest,   *)
(* an unknown label or a repeated note, or a recording, plays back; timers *)
(* that are due do fire.                                                   *)
(***************************************************************************)
\* a note then a rest, an unknown label then a note, the same note twice
DuetMelodies == { << "A", " " >>, << "?", "A" >>, << "A", "a" >> }

\* nothing recorded, or the first key recorded once
DuetRecordings == { <<>>, << Entry(keyboard[1]) >> }

InitDuet ==
    /\ InitPlay
    /\ curMelody \in DuetMelodies
    /\ recordedNotes \in DuetRecordings

\* the key both the melodies and the recordings play, pressed and released
\* while a playback runs
DuetPress == (isPlaying \/ isPlayingRecorded) /\ KeyPressOf(keyboard[1])

DuetRelease == (isPlaying \/ isPlayingRecorded) /\ KeyReleaseOf(keyboard[1])

DuetPlayMelody == ~isPlayingRecorded /\ PlayMelodyCall

DuetPlayRecording == ~isPlaying /\ PlayRecordingCall

NextDuet ==
    \/ DuetPlayMelody
    \/ DuetPlayRecording
    \/ DuetPress
    \/ DuetRelease
    \/ Tick
    \/ FireStart
    \/ FireStop
    \/ FireMelodyDone
    \/ FireRecordingDone

SpecDuet ==
    /\ InitDuet
    /\ [][NextDuet]_vars
    /\ WF_vars(Tick)
    /\ WF_vars(FireStart)
    /\ WF_vars(FireStop)
    /\ WF_vars(FireMelodyDone)
    /\ WF_vars(FireRecordingDone)

\* C25: every accepted playback eventually clears its guard, provided its
\* timers fire: whatever the melody or the recording holds (rests, labels
\* no key carries, repeated notes) and whatever key presses and releases
\* come in between, isPlaying and isPlayingRecorded each return to false.
C25_GuardEventuallyCleared ==
    /\ isPlaying ~> ~isPlaying
    /\ isPlayingRecorded ~> ~isPlayingRecorded

\* a melody with a rest or an unknown label has completed although the key
\* of its note was pressed meanwhile and is still held
C25_Witness ==
    /\ lastCall.op = "melodyDone"
    /\ ~isPlaying
    /\ curMelody \in { << "A", " " >>, << "?", "A" >> }
    /\ held # {}
    /\ timers = <<>>

\* C31: when operations are triggered only through enabled buttons and key
\* presses, the captured sequence does not change between the acceptance of
\* a playRecording call and its completion: every step taken while
\* isPlayingRecorded is true, the completion step included, leaves
\* recordedNotes as it is, so the sequence the completion compares is the
\* sequence whose notes were scheduled.  (Checked under SpecScope.)
C31_RecordingFrozenDuringPlayback ==
    /\ [][ isPlayingRecorded => recordedNotes' = recordedNotes ]_vars
    /\ [][ lastCall'.op = "recordingDone"
             => /\ isPlayingRecorded
                /\ recordedNotes' = recordedNotes ]_vars
    /\ [](isPlayingRecorded => disabled.recordBtn /\ ~isRecording)

\* a key was pressed while the recording plays back: nothing was captured
C31_Witness ==
    /\ isPlayingRecorded
    /\ lastCall.op = "recordKeyPresses"
    /\ ~lastCall.ok
    /\ recordedNotes # <<>>
    /\ timers # <<>>

(***************************************************************************)
(* SpecLabelMap: each label of the pool is looked up both ways, by         *)
(* resolveNoteFromLabel and in the map playRecording builds.               *)
(***************************************************************************)
\* the labels of the pool, as one-character strings
PoolLabels == { << labelPool[i] >> : i \in 1..Len(labelPool) }

\* no preferred octave, or one of the octaves of the keyboard
KeyboardOctaves == { Null } \cup (startOctave..endOctave)

\* one call of resolveNoteFromLabel and one lookup map[label] on the loaded
\* page, for the same label
LabelMapCall ==
    \E label \in PoolLabels, preferredOctave \in KeyboardOctaves :
        /\ lastCall.op = "init"
        /\ lastCall' = [ op |-> "labelToNote", arg |-> label, freq |-> 0,
                         ok |-> resolveNoteFromLabel(label, preferredOctave) # <<>>,
                         octave |-> preferredOctave,
                         res |-> resolveNoteFromLabel(label, preferredOctave),
                         map |-> mapLookup(toUpperCase(trim(label))) ]
        /\ UNCHANGED constVars
        /\ UNCHANGED scopeVars
        /\ UNCHANGED userVars
        /\ UNCHANGED monoVars
        /\ UNCHANGED << voiceVars, volume, audioState, recVars, playVars, disabled,
                        threw >>

SpecLabelMap == Init /\ [][LabelMapCall]_vars

\* C32: createKeyboard builds exactly 27 keys, A2 up to B4, and gives the
\* i-th key the i-th label of the 27-entry pool (A..Z, then U+2423): the
\* labels are pairwise distinct, the pool is never exhausted (the fallback
\* label is not used), and for every label of the pool the first-match
\* resolution of resolveNoteFromLabel and the last-write-wins map of
\* playRecording give the same note identifier, the one of the key that
\* carries the label.
C32_LabelsOneToOne ==
    /\ Len(keyboard) = 27
    /\ Len(labelPool) = 27
    /\ keyboard[1].note = << "A", "2" >>
    /\ keyboard[Len(keyboard)].note = << "B", "4" >>
    /\ \A i \in 1..Len(keyboard) :
          /\ i <= Len(labelPool)
          /\ keyboard[i].label = << labelPool[i] >>
    /\ \A i, j \in 1..Len(keyboard) :
          i # j => /\ keyboard[i].label # keyboard[j].label
                   /\ keyboard[i].note # keyboard[j].note
    /\ lastCall.op = "labelToNote"
          => /\ lastCall.res = lastCall.map
             /\ \E i \in 1..Len(keyboard) :
                   /\ keyboard[i].label = lastCall.arg
                   /\ keyboard[i].note = lastCall.res

\* the label of the last key, U+2423, has just been looked up with the
\* first octave preferred: both ways give B4
C32_Witness ==
    /\ lastCall.op = "labelToNote"
    /\ lastCall.arg = << SpaceGlyph >>
    /\ lastCall.octave = startOctave
    /\ lastCall.res = << "B", "4" >>
    /\ lastCall.map = << "B", "4" >>

(***************************************************************************)
(* SpecMelodyArgs: playMelody is called with one melody string after       *)
(* another, the empty (or missing) one among them.                         *)
(***************************************************************************)
\* the strings handed to playMelody: none, a label, a label no key carries,
\* a label and a rest
ArgMelodies == { <<>>, << "A" >>, << "?" >>, << "A", " " >> }

\* one call playMelody(melodyStr); afterEmpty tells that the call before it
\* was one with the empty string
PlayMelodyWith(melodyStr) ==
    /\ playMelody(melodyStr)
    /\ UNCHANGED constVars
    /\ UNCHANGED scopeVars
    /\ UNCHANGED userVars
    /\ UNCHANGED monoVars
    /\ lastCall' = [ op |-> "playMelody", arg |-> melodyStr, freq |-> 0,
                     ok |-> ~isPlaying /\ melodyStr # <<>>,
                     afterEmpty |-> /\ lastCall.op = "playMelody"
                                    /\ lastCall.arg = <<>> ]
    /\ UNCHANGED << voiceVars, volume, recVars, isPlayingRecorded, results,
                    guardAtCallback, threw >>

PlayMelodyArg == \E melodyStr \in ArgMelodies : PlayMelodyWith(melodyStr)

NextMelodyArgs ==
    \/ PlayMelodyArg
    \/ Tick
    \/ FireStart
    \/ FireStop
    \/ FireMelodyDone

SpecMelodyArgs == Init /\ [][NextMelodyArgs]_vars

\* C33: playMelody called with an empty or missing melody string while
\* isPlaying is false is rejected without side effects on the scheduler:
\* isPlaying stays false, no timer is registered, no button and no voice
\* changes; and every playMelody call with a non-empty string made while
\* isPlaying is false, one that follows such a rejected call included, is
\* accepted: it sets isPlaying and registers its timers.
C33_EmptyMelodyRejected ==
    /\ [][ (lastCall'.op = "playMelody" /\ lastCall'.arg = <<>> /\ ~isPlaying)
             => /\ ~isPlaying'
                /\ timers' = timers
                /\ disabled' = disabled
                /\ UNCHANGED voiceVars
                /\ ~lastCall'.ok ]_vars
    /\ [][ (lastCall'.op = "playMelody" /\ lastCall'.arg # <<>> /\ ~isPlaying)
             => /\ isPlaying'
                /\ Len(timers') > Len(timers)
                /\ lastCall'.ok ]_vars

\* a call with a melody has just been accepted right after a call with the
\* empty string was rejected
C33_Witness ==
    /\ lastCall.op = "playMelody"
    /\ "afterEmpty" \in DOMAIN lastCall
    /\ lastCall.afterEmpty
    /\ lastCall.arg # <<>>
    /\ lastCall.ok
    /\ isPlaying
    /\ timers # <<>>

(***************************************************************************)
(* game.js v0.4: the page in one script.  Its state is the record mono;    *)
(* each of its functions maps the record before the call to the record     *)
(* after it.  Its getFrequency (game.js:57-63), resolveNoteFromLabel       *)
(* (game.js:101-117) and keyboard loop (game.js:308-370) are the text of   *)
(* keyboard.js, and are the definitions above.                             *)
(***************************************************************************)
monoStartNote(g, note, freq) ==
    [ g EXCEPT
        !.activeNotes = [ n \in DOMAIN g.activeNotes \cup { note } |->
                            IF n = note THEN [ osc |-> freq, gain |-> g.volume ]
                            ELSE g.activeNotes[n] ],
        !.currentFreq = freq,
        !.lastFreq = freq,
        !.targetAmp = g.volume ]

\* a faulty variant of monoStopNote: the visual state is cleared whenever a
\* sounding note is stopped
monoStopNoteAlwaysClears(g, note) ==
    IF note \notin DOMAIN g.activeNotes THEN g
    ELSE [ g EXCEPT
             !.activeNotes = [ n \in DOMAIN g.activeNotes \ { note } |-> g.activeNotes[n] ],
             !.currentFreq = Null,
             !.targetAmp = 0 ]

monoStopNote(g, note) ==
    IF note \notin DOMAIN g.activeNotes THEN g
    ELSE LET rest == [ n \in DOMAIN g.activeNotes \ { note } |-> g.activeNotes[n] ]
         IN  IF DOMAIN rest = {}
             THEN [ g EXCEPT !.activeNotes = rest, !.currentFreq = Null, !.targetAmp = 0 ]
             ELSE [ g EXCEPT !.activeNotes = rest ]

\* the forEach of playMelody in game.js from position idx (0-based) on: the
\* timers it registers, then the completion timer at totalMs
RECURSIVE monoSchedule(_, _, _)
monoSchedule(chars, idx, timeOffset) ==
    IF idx >= Len(chars)
    THEN << Timer("done", "melody", <<>>, <<>>, timeOffset + NOTE_RELEASE) >>
    ELSE LET label == toUpperCase(trim(<< chars[idx + 1] >>))
             duration == IF idx = Len(chars) - 1
                         THEN LAST_NOTE_DURATION ELSE DEFAULT_NOTE_DURATION
             dataNote == IF label = <<>> THEN <<>> ELSE resolveNoteFromLabel(label, Null)
         IN  IF dataNote = <<>>
             THEN monoSchedule(chars, idx + 1, timeOffset + duration)
             ELSE << Timer("start", "melody", dataNote, <<>>, timeOffset),
                     Timer("stop", "melody", dataNote, <<>>, timeOffset + duration) >>
                  \o monoSchedule(chars, idx + 1, timeOffset + duration)

\* playMelody(melodyRef) of game.js with a string for melodyRef
monoPlayMelody(g, melodyRef) ==
    LET resumed == [ g EXCEPT !.audioState = "running" ]
        melodyStr == melodyRef
    IN  IF resumed.isPlaying \/ melodyStr = <<>> THEN resumed
        ELSE [ resumed EXCEPT
                 !.isPlaying = TRUE,
                 !.disabled = [ @ EXCEPT !.recordBtn = TRUE, !.playBottomBtn = TRUE ],
                 !.timers = @ \o monoSchedule(melodyStr, 0, 0) ]

\* the callback of the pending timer i of game.js runs
monoFire(g, i) ==
    LET t == g.timers[i]
        left == [ g EXCEPT !.timers = SubSeq(@, 1, i - 1) \o SubSeq(@, i + 1, Len(@)) ]
    IN  IF t.fn = "start"
        THEN LET m == matchNote(t.note)
             IN  IF m = <<>> THEN left
                 ELSE monoStartNote(left, t.note, getFrequency(m[1], parseInt(m[2])))
        ELSE IF t.fn = "stop" THEN monoStopNote(left, t.note)
        ELSE [ left EXCEPT
                 !.disabled = [ @ EXCEPT
                     !.recordBtn = left.isRecording \/ left.isPlayingRecorded,
                     !.playBottomBtn = \/ left.recordedNotes = <<>>
                                       \/ left.isRecording
                                       \/ left.isPlayingRecorded ],
                 !.isPlaying = FALSE ]

\* d milliseconds pass for the pending timers of game.js
monoTick(g, d) ==
    [ g EXCEPT !.timers = [ i \in 1..Len(@) |-> [ @[i] EXCEPT !.rem = @ - d ] ] ]

(***************************************************************************)
(* SpecBoth: the modules and game.js v0.4 are given the same calls and the *)
(* same timer firings.                                                     *)
(***************************************************************************)
\* startNote as the press listeners of a key call it
BothStartNote ==
    \E k \in UserKeys :
      LET note == k.note
          freq == getFrequency(k.name, k.octave)
      IN
        /\ startNote(note, freq)
        /\ mono' = monoStartNote(mono, note, freq)
        /\ UNCHANGED constVars
        /\ UNCHANGED scopeVars
        /\ UNCHANGED userVars
        /\ lastCall' = [ op |-> "startNote", arg |-> note, freq |-> freq,
                         ok |-> note \notin DOMAIN activeNotes ]
        /\ UNCHANGED << volume, audioState, recVars, playVars, disabled, threw >>

BothStopNote ==
    \E note \in UserNotes :
        /\ stopNote(note)
        /\ mono' = monoStopNote(mono, note)
        /\ UNCHANGED constVars
        /\ UNCHANGED scopeVars
        /\ UNCHANGED userVars
        /\ lastCall' = [ op |-> "stopNote", arg |-> note, freq |-> 0,
                         ok |-> note \in DOMAIN activeNotes ]
        /\ UNCHANGED << volume, audioState, recVars, playVars, disabled >>

BothPlayMelody ==
    \E melodyStr \in ArgMelodies :
        /\ playMelody(melodyStr)
        /\ mono' = monoPlayMelody(mono, melodyStr)
        /\ UNCHANGED constVars
        /\ UNCHANGED scopeVars
        /\ UNCHANGED userVars
        /\ lastCall' = [ op |-> "playMelody", arg |-> melodyStr, freq |-> 0,
                         ok |-> ~isPlaying /\ melodyStr # <<>> ]
        /\ UNCHANGED << voiceVars, volume, recVars, isPlayingRecorded, results,
                        guardAtCallback, threw >>

BothTick ==
    /\ timers # <<>>
    /\ minRem(timers) > 0
    /\ LET d == IF minRem(timers) < TickMs THEN minRem(timers) ELSE TickMs
       IN  /\ timers' = [ i \in 1..Len(timers) |->
                            [ timers[i] EXCEPT !.rem = timers[i].rem - d ] ]
           /\ mono' = monoTick(mono, d)
    /\ UNCHANGED constVars
    /\ UNCHANGED scopeVars
    /\ UNCHANGED userVars
    /\ lastCall' = [ op |-> "tick", arg |-> <<>>, freq |-> 0, ok |-> TRUE ]
    /\ UNCHANGED << voiceVars, volume, audioState, recVars, isPlaying,
                    isPlayingRecorded, disabled, results, guardAtCallback, threw >>

\* the timer at position i fires on either page
monoFireSame(i) ==
    mono' = IF i <= Len(mono.timers) THEN monoFire(mono, i) ELSE mono

BothFireStart ==
    \E i \in 1..Len(timers) :
        /\ mayFire(i)
        /\ timers[i].fn = "start"
        /\ timerStart(timers[i].note)
        /\ timers' = removeTimer(i)
        /\ monoFireSame(i)
        /\ UNCHANGED constVars
        /\ UNCHANGED scopeVars
        /\ UNCHANGED userVars
        /\ lastCall' = [ op |-> "timerStart", arg |-> timers[i].note, freq |-> 0,
                         ok |-> timers[i].note \notin DOMAIN activeNotes ]
        /\ UNCHANGED << volume, audioState, recVars, isPlaying, isPlayingRecorded,
                        disabled, results, guardAtCallback, threw >>

BothFireStop ==
    \E i \in 1..Len(timers) :
        /\ mayFire(i)
        /\ timers[i].fn = "stop"
        /\ stopNote(timers[i].note)
        /\ timers' = removeTimer(i)
        /\ monoFireSame(i)
        /\ UNCHANGED constVars
        /\ UNCHANGED scopeVars
        /\ UNCHANGED userVars
        /\ lastCall' = [ op |-> "timerStop", arg |-> timers[i].note, freq |-> 0,
                         ok |-> timers[i].note \in DOMAIN activeNotes ]
        /\ UNCHANGED << volume, audioState, recVars, isPlaying, isPlayingRecorded,
                        disabled, results, guardAtCallback >>

BothFireMelodyDone ==
    \E i \in 1..Len(timers) :
        /\ mayFire(i)
        /\ timers[i].fn = "done" /\ timers[i].src = "melody"
        /\ melodyDone
        /\ timers' = removeTimer(i)
        /\ monoFireSame(i)
        /\ UNCHANGED constVars
        /\ UNCHANGED scopeVars
        /\ UNCHANGED userVars
        /\ lastCall' = [ op |-> "melodyDone", arg |-> <<>>, freq |-> 0, ok |-> TRUE ]
        /\ UNCHANGED << voiceVars, volume, audioState, recVars, threw >>

NextBoth ==
    \/ BothStartNote
    \/ BothStopNote
    \/ BothPlayMelody
    \/ BothTick
    \/ BothFireStart
    \/ BothFireStop
    \/ BothFireMelodyDone

SpecBoth == Init /\ [][NextBoth]_vars

\* C34: the modules (startNote and stopNote of keyboard.js with setVars and
\* clearVars of audio.js, playMelody of playRecord.js) and game.js v0.4 are
\* equivalent: given the same startNote, stopNote and playMelody(string)
\* calls and the same timer firings, both have the same active notes, the
\* same targetAmp, currentFreq and lastFreq, the same isPlaying, and the
\* same pending note-start, note-stop and completion timers at the same
\* offsets.
C34_SameAsMonolithic ==
    /\ mono.activeNotes = activeNotes
    /\ mono.targetAmp = targetAmp
    /\ mono.currentFreq = currentFreq
    /\ mono.lastFreq = lastFreq
    /\ mono.isPlaying = isPlaying
    /\ Len(mono.timers) = Len(timers)
    /\ \A i \in 1..Len(timers) :
          /\ mono.timers[i].fn = timers[i].fn
          /\ mono.timers[i].note = timers[i].note
          /\ mono.timers[i].delay = timers[i].delay
          /\ mono.timers[i].rem = timers[i].rem

\* on either page one of two notes started by calls has been stopped while
\* a melody with a rest plays: one note still sounds, the completion is
\* pending
C34_Witness ==
    /\ lastCall.op = "stopNote"
    /\ lastCall.ok
    /\ Cardinality(DOMAIN mono.activeNotes) = 1
    /\ mono.currentFreq # Null
    /\ mono.targetAmp > 0
    /\ mono.isPlaying
    /\ isPlaying
    /\ \E i \in 1..Len(mono.timers) :
          mono.timers[i].fn = "done" /\ mono.timers[i].delay = 2000

====
